---- MODULE Spec2Model ----
(***************************************************************************)
(* A model of the PubMed agent's article reader                            *)
(* (simplified_agent/lambda/read_pubmed.py): the identifier and source-URL *)
(* validators, the PMCArticleResponse self-check, and read_pubmed with its *)
(* object-store and summarization calls; and of its two searches,          *)
(* search_pubmed (simplified_agent/lambda/search_pubmed_simple.py) and     *)
(* lambda_handler with perform_pubmed_search                               *)
(* (action_groups/pubmed_researcher/lambda/search_pubmed_bedrock.py).      *)
(*                                                                         *)
(* Python strings are modelled as run-length encoded sequences of pieces:  *)
(* a piece is one character ("P", " ", "\n") or a literal fragment of the  *)
(* source that the code never inspects character by character (a message   *)
(* text, the key prefix, a markup tag); a run is a piece and a repeat      *)
(* count, so that a text longer than CONTENT_CHARACTER_LIMIT characters    *)
(* is a short sequence of runs.  Every string value is kept normalised     *)
(* (no empty run, no two adjacent runs of the same piece), so equal        *)
(* strings are equal values.                                               *)
(***************************************************************************)
EXTENDS Integers, Sequences, FiniteSets, TLC

VARIABLES
    fn,        \* pure-function specifications: the function applied
    arg,       \* ... its argument
    ret,       \* ... its result ("pending" before the call)
    pc,        \* read_pubmed: position of the call
    pmcid,     \* read_pubmed: the pmcid argument (a Python value)
    source,    \* read_pubmed: the source argument (a Python value)
    calls,     \* read_pubmed: external calls issued so far, in order
    raw,       \* _retrieve_pmc_article: decoded object content (raw_content)
    text,      \* _process_article_content: extracted_text
    sumResult, \* _summarize_content: how the summarization ended
    response,  \* read_pubmed: the returned dictionary
    raised,    \* read_pubmed: the exception that left the call ("none" if none)
    entry,        \* search: the entry point called
    inputs,       \* search: its arguments (search_pubmed) or its event (lambda_handler)
    idlist,       \* search service: the identifiers the id-search answered with
    payload,      \* search service: the document the detail-fetch answered with
    spc,          \* search: position of the call
    query,        \* search: the local query
    max_results,  \* search: the local max_results
    max_records,  \* search: the local max_records
    rerank,       \* search: the local rerank
    requests,     \* search: HTTP requests issued so far, in order
    pmids,        \* search: the local pmids
    articles,     \* search: the local articles
    ranking,      \* search: how the reranking step ended
    result,       \* search: the string the search function returned
    failure,      \* search: the exception that left the search function
    api_response, \* lambda_handler: the returned response
    sup_pc,              \* supervisor handler: position of the call
    user_prompt,         \* supervisor handler: the local user_prompt
    expansion_data,      \* supervisor handler: what expand_scientific_query returned
    search_query,        \* conduct_pubmed_research: the local search_query
    search_results,      \* conduct_pubmed_research: the local search_results
    pmc_ids,             \* conduct_pubmed_research: the local pmc_ids
    full_text_analyses,  \* conduct_pubmed_research: the local full_text_analyses
    trace,               \* supervisor handler: the steps taken so far, in order
    final_response       \* supervisor handler: the returned value

searchVars ==
    <<entry, inputs, idlist, payload, spc, query, max_results, max_records, rerank,
      requests, pmids, articles, ranking, result, failure, api_response>>

supVars ==
    <<sup_pc, user_prompt, expansion_data, search_query, search_results, pmc_ids,
      full_text_analyses, trace, final_response>>

vars ==
    <<fn, arg, ret, pc, pmcid, source, calls, raw, text, sumResult, response, raised,
      searchVars, supVars>>

pureVars == <<fn, arg, ret>>
readVars == <<pc, pmcid, source, calls, raw, text, sumResult, response, raised>>

(***************************************************************************)
(* Bounds of the model.                                                    *)
(***************************************************************************)
MaxIdLen == 5
MaxTailLen == 3
MaxChunks == 2

(***************************************************************************)
(* Program constants.                                                      *)
(***************************************************************************)
CONTENT_CHARACTER_LIMIT == 100000
TARGET_SUMMARY_LENGTH == 10000

(***************************************************************************)
(* Character classes.  Python's str.strip() and the pattern class \s work  *)
(* on Unicode whitespace; \d in a str pattern matches every Unicode        *)
(* decimal digit, of which "U+0663" (ARABIC-INDIC DIGIT THREE) is one      *)
(* outside ASCII; "." matches every character but the line feed.           *)
(***************************************************************************)
Whitespace == {" ", "\t", "\n"}
AsciiDigit == {"0", "1", "2", "3", "4", "5", "6", "7", "8", "9"}
NonAsciiDigit == {"U+0663"}
UnicodeDigit == AsciiDigit \cup NonAsciiDigit

(***************************************************************************)
(* Strings.                                                                *)
(***************************************************************************)
Run(c, n) == [c |-> c, n |-> n]

\* a and b normalised, joined: their meeting runs merge when of one piece.
Glue(a, b) ==
    IF a = <<>> THEN b
    ELSE IF b = <<>> THEN a
    ELSE IF a[Len(a)].c = b[1].c
         THEN SubSeq(a, 1, Len(a) - 1) \o <<Run(b[1].c, a[Len(a)].n + b[1].n)>> \o Tail(b)
    ELSE a \o b

\* The halves of s are normalised and joined, so that a long sequence of
\* runs is normalised in few nested steps.
RECURSIVE Norm(_)
Norm(s) ==
    IF s = <<>> THEN <<>>
    ELSE IF Len(s) = 1 THEN (IF Head(s).n = 0 THEN <<>> ELSE s)
    ELSE Glue(Norm(SubSeq(s, 1, Len(s) \div 2)),
              Norm(SubSeq(s, (Len(s) \div 2) + 1, Len(s))))

\* A string literal, from its pieces.
S(t) == Norm([i \in 1..Len(t) |-> Run(t[i], 1)])

\* a + b
Cat(a, b) == Norm(a \o b)

RECURSIVE StrLen(_)
StrLen(s) == IF s = <<>> THEN 0 ELSE Head(s).n + StrLen(Tail(s))

\* s[:k]
RECURSIVE Take(_, _)
Take(s, k) ==
    IF s = <<>> \/ k <= 0 THEN <<>>
    ELSE IF Head(s).n >= k THEN <<Run(Head(s).c, k)>>
    ELSE <<Head(s)>> \o Take(Tail(s), k - Head(s).n)

\* The characters of a (short) string, one by one.
RECURSIVE Expand(_)
Expand(s) ==
    IF s = <<>> THEN <<>>
    ELSE [i \in 1..Head(s).n |-> Head(s).c] \o Expand(Tail(s))

\* s.strip(), on the characters of s.
RECURSIVE LStrip(_)
LStrip(t) == IF t # <<>> /\ Head(t) \in Whitespace THEN LStrip(Tail(t)) ELSE t

RECURSIVE RStrip(_)
RStrip(t) ==
    IF t # <<>> /\ t[Len(t)] \in Whitespace THEN RStrip(SubSeq(t, 1, Len(t) - 1)) ELSE t

Strip(t) == RStrip(LStrip(t))

(***************************************************************************)
(* Python values: None, a str, or a value of another type (an int).        *)
(***************************************************************************)
PyNone == [t |-> "none", s |-> <<>>]
PyStr(s) == [t |-> "str", s |-> s]
PyInt(digits) == [t |-> "int", s |-> S(<<digits>>)]

IsNone(v) == v.t = "none"
IsStr(v) == v.t = "str"

\* bool(v): None, "" and 0 are false.
Truthy(v) ==
    CASE v.t = "none" -> FALSE
      [] v.t = "str" -> v.s # <<>>
      [] OTHER -> v.s # S(<<"0">>)

\* f"{v}"
Format(v) == IF IsNone(v) THEN S(<<"None">>) ELSE v.s

(***************************************************************************)
(* re.match: "$" matches at the end of the string and just before a line   *)
(* feed that ends it.                                                      *)
(***************************************************************************)
AtDollar(t, i) == i = Len(t) + 1 \/ (i = Len(t) /\ t[i] = "\n")

\* re.match(r"^PMC\d+$", t)
MatchPmcidPattern(t) ==
    /\ Len(t) >= 4
    /\ SubSeq(t, 1, 3) = <<"P", "M", "C">>
    /\ \E k \in 4..Len(t) :
         /\ \A i \in 4..k : t[i] \in UnicodeDigit
         /\ AtDollar(t, k + 1)

_validate_pmcid(v) ==
    IF ~Truthy(v) \/ ~IsStr(v) THEN FALSE
    ELSE MatchPmcidPattern(Strip(Expand(v.s)))

\* re.match(r"^https?://[^\s/$.?#].[^\s]*$", t)
MatchUrlPattern(t) ==
    \E p \in {4, 5} :
      /\ Len(t) >= p + 5
      /\ SubSeq(t, 1, 4) = <<"h", "t", "t", "p">>
      /\ p = 5 => t[5] = "s"
      /\ SubSeq(t, p + 1, p + 3) = <<":", "/", "/">>
      /\ t[p + 4] \notin Whitespace \cup {"/", "$", ".", "?", "#"}
      /\ t[p + 5] # "\n"
      /\ \E k \in (p + 5)..Len(t) :
           /\ \A i \in (p + 6)..k : t[i] \notin Whitespace
           /\ AtDollar(t, k + 1)

_validate_source_url(v) ==
    IF ~Truthy(v) \/ ~IsStr(v) THEN FALSE
    ELSE MatchUrlPattern(Strip(Expand(v.s)))

(***************************************************************************)
(* Inputs of the validators: every string of at most MaxIdLen characters   *)
(* over an alphabet with one character of each class the pattern tells     *)
(* apart, and the values that are no strings.                              *)
(***************************************************************************)
SeqsUpTo(A, n) == UNION {[1..k -> A] : k \in 0..n}

NonStrings == {PyNone, PyInt("0"), PyInt("123")}

IdAlphabet == {"P", "M", "C", "1", "U+0663", " ", "x"}
PmcidArgs == {PyStr(S(t)) : t \in SeqsUpTo(IdAlphabet, MaxIdLen)} \cup NonStrings

Schemes ==
    { <<"h", "t", "t", "p", ":", "/", "/">>,
      <<"h", "t", "t", "p", "s", ":", "/", "/">>,
      <<"f", "t", "p", ":", "/", "/">>,
      <<"h", "t", "t", "p", ":", "/">>,
      <<" ", "h", "t", "t", "p", ":", "/", "/">>,
      <<>> }
TailAlphabet == {"a", "/", ".", "?", "#", "$", " ", "\n"}
UrlArgs ==
    {PyStr(S(s \o t)) : s \in Schemes, t \in SeqsUpTo(TailAlphabet, MaxTailLen)}
        \cup NonStrings

(***************************************************************************)
(* PMCArticleResponse: the fields, the self-check run by __post_init__,    *)
(* and to_dict.  A key that to_dict leaves out of the dictionary reads     *)
(* Absent.                                                                 *)
(***************************************************************************)
Lit(x) == PyStr(S(<<x>>))
Absent == [t |-> "absent", s |-> <<>>]

PMCArticleResponse(status, content, message, id, license_type, s3_path, src) ==
    [status |-> status, content |-> content, message |-> message, pmcid |-> id,
     license_type |-> license_type, s3_path |-> s3_path, source |-> src]

NoResponse == PMCArticleResponse(PyNone, PyNone, PyNone, PyNone, PyNone, PyNone, PyNone)

valid_statuses ==
    {Lit("success"), Lit("licensing_restriction"), Lit("not_found"), Lit("error")}
valid_license_types == {Lit("commercial"), Lit("non_commercial")}

\* v.strip() is empty
Blank(v) == Strip(Expand(v.s)) = <<>>

\* "ok", or the exception the self-check raises.
_validate_response(r) ==
    IF r.status \notin valid_statuses THEN "ValueError"
    ELSE IF ~IsNone(r.license_type) /\ r.license_type \notin valid_license_types
         THEN "ValueError"
    ELSE IF ~IsStr(r.message) \/ Blank(r.message) THEN "ValueError"
    ELSE IF IsNone(r.pmcid) /\ r.status \notin {Lit("error"), Lit("not_found")}
         THEN "ValueError"
    ELSE IF ~IsNone(r.pmcid) /\ ~IsStr(r.pmcid) THEN "ValueError"
    ELSE IF /\ IsStr(r.pmcid)
            /\ Blank(r.pmcid)
            /\ r.status \notin {Lit("error"), Lit("not_found")}
         THEN "ValueError"
    ELSE IF r.status = Lit("success")
         THEN IF IsNone(r.content) \/ ~IsStr(r.content) THEN "ValueError"
              ELSE IF r.license_type # Lit("commercial") THEN "ValueError"
              ELSE IF ~Truthy(r.s3_path) THEN "ValueError"
              ELSE "ok"
    ELSE IF r.status = Lit("licensing_restriction")
         THEN IF ~IsNone(r.content) THEN "ValueError"
              ELSE IF r.license_type # Lit("non_commercial") THEN "ValueError"
              ELSE IF ~Truthy(r.s3_path) THEN "ValueError"
              ELSE "ok"
    ELSE IF ~IsNone(r.content) THEN "ValueError"
    ELSE "ok"

\* Mutant of to_dict: the source key is left out of an error response.
to_dict_without_source_on_error(r) ==
    [status |-> r.status, content |-> r.content, message |-> r.message,
     pmcid |-> r.pmcid, license_type |-> r.license_type, s3_path |-> r.s3_path,
     text |-> IF ~IsNone(r.content) THEN r.content ELSE Absent,
     source |-> IF ~IsNone(r.source) /\ r.status # Lit("error") THEN r.source ELSE Absent]

to_dict(r) ==
    [status |-> r.status, content |-> r.content, message |-> r.message,
     pmcid |-> r.pmcid, license_type |-> r.license_type, s3_path |-> r.s3_path,
     text |-> IF ~IsNone(r.content) THEN r.content ELSE Absent,
     source |-> IF ~IsNone(r.source) THEN r.source ELSE Absent]

BoolStr(b) == IF b THEN "True" ELSE "False"

ReadIdle ==
    /\ pc = "idle"
    /\ pmcid = PyNone
    /\ source = PyNone
    /\ calls = <<>>
    /\ raw = <<>>
    /\ text = <<>>
    /\ sumResult = "none"
    /\ response = NoResponse
    /\ raised = "none"

\* An exception: its type and str(e); no exception.
Error(type, msg) == [type |-> type, msg |-> msg]
NoFailure == Error("none", <<>>)

\* The ElementTree of a detail-fetch document, or a text that does not parse;
\* entity_decl: the document type declaration of the text declares an entity.
Payload(wellformed, entries) ==
    [wellformed |-> wellformed, entity_decl |-> FALSE, entries |-> entries]
EntityPayload(entries) ==
    [wellformed |-> TRUE, entity_decl |-> TRUE, entries |-> entries]

\* lambda_handler's api_response: httpStatusCode and the body text.
ApiResponse(code, body) == [httpStatusCode |-> code, body |-> body]
NoApiResponse == ApiResponse(0, PyNone)

\* No search is running.
SearchIdle ==
    /\ entry = "none"
    /\ inputs = PyNone
    /\ idlist = <<>>
    /\ payload = Payload(TRUE, <<>>)
    /\ spc = "idle"
    /\ query = PyNone
    /\ max_results = PyNone
    /\ max_records = PyNone
    /\ rerank = PyNone
    /\ requests = <<>>
    /\ pmids = <<>>
    /\ articles = <<>>
    /\ ranking = "not_run"
    /\ result = PyNone
    /\ failure = NoFailure
    /\ api_response = NoApiResponse

\* The supervisor handler is not running.
SupIdle ==
    /\ sup_pc = "idle"
    /\ user_prompt = PyNone
    /\ expansion_data = PyNone
    /\ search_query = PyNone
    /\ search_results = PyNone
    /\ pmc_ids = <<>>
    /\ full_text_analyses = <<>>
    /\ trace = <<>>
    /\ final_response = PyNone

(***************************************************************************)
(* _validate_pmcid applied to each input.                                  *)
(***************************************************************************)
InitValidatePmcid ==
    /\ fn = "_validate_pmcid"
    /\ arg \in PmcidArgs
    /\ ret = "pending"
    /\ ReadIdle
    /\ SearchIdle
    /\ SupIdle

ApplyValidatePmcid ==
    /\ fn = "_validate_pmcid"
    /\ ret = "pending"
    /\ ret' = BoolStr(_validate_pmcid(arg))
    /\ UNCHANGED <<fn, arg, readVars>>
    /\ UNCHANGED searchVars
    /\ UNCHANGED supVars

SpecValidatePmcid == InitValidatePmcid /\ [][ApplyValidatePmcid]_vars

(***************************************************************************)
(* _validate_source_url applied to each input.                             *)
(***************************************************************************)
InitValidateSourceUrl ==
    /\ fn = "_validate_source_url"
    /\ arg \in UrlArgs
    /\ ret = "pending"
    /\ ReadIdle
    /\ SearchIdle
    /\ SupIdle

ApplyValidateSourceUrl ==
    /\ fn = "_validate_source_url"
    /\ ret = "pending"
    /\ ret' = BoolStr(_validate_source_url(arg))
    /\ UNCHANGED <<fn, arg, readVars>>
    /\ UNCHANGED searchVars
    /\ UNCHANGED supVars

SpecValidateSourceUrl == InitValidateSourceUrl /\ [][ApplyValidateSourceUrl]_vars

(***************************************************************************)
(* _determine_license_type: content.lower() and the "in" test.             *)
(***************************************************************************)
UpperCase ==
    <<"A", "B", "C", "D", "E", "F", "G", "H", "I", "J", "K", "L", "M",
      "N", "O", "P", "Q", "R", "S", "T", "U", "V", "W", "X", "Y", "Z">>
LowerCase ==
    <<"a", "b", "c", "d", "e", "f", "g", "h", "i", "j", "k", "l", "m",
      "n", "o", "p", "q", "r", "s", "t", "u", "v", "w", "x", "y", "z">>

LowerPiece(c) ==
    IF \E i \in 1..26 : UpperCase[i] = c
    THEN LowerCase[CHOOSE i \in 1..26 : UpperCase[i] = c]
    ELSE c

\* s.lower()
Lower(s) == Norm([i \in 1..Len(s) |-> Run(LowerPiece(s[i].c), s[i].n)])

\* Runs cut to at most m repeats: a string of m characters occurs in s
\* exactly when it occurs in s with every run cut to m.
Clip(s, m) == [i \in 1..Len(s) |-> Run(s[i].c, IF s[i].n > m THEN m ELSE s[i].n)]

\* pat in s, for the characters pat
Contains(s, pat) ==
    LET t == Expand(Clip(s, Len(pat)))
    IN  \E i \in 1..(Len(t) - Len(pat) + 1) : SubSeq(t, i, i + Len(pat) - 1) = pat

commercial_indicators ==
    << <<"c", "c", "0">>,
       <<"c", "c", " ", "b", "y">>,
       <<"c", "r", "e", "a", "t", "i", "v", "e", " ", "c", "o", "m", "m", "o", "n", "s",
         " ", "a", "t", "t", "r", "i", "b", "u", "t", "i", "o", "n">>,
       <<"p", "u", "b", "l", "i", "c", " ", "d", "o", "m", "a", "i", "n">> >>

\* Mutant of _determine_license_type: the content is not lower-cased.
_determine_license_type_case_sensitive(content) ==
    IF \E i \in 1..Len(commercial_indicators) : Contains(content, commercial_indicators[i])
    THEN Lit("commercial")
    ELSE Lit("non_commercial")

_determine_license_type(content) ==
    LET content_lower == Lower(content)
    IN  IF \E i \in 1..Len(commercial_indicators) :
              Contains(content_lower, commercial_indicators[i])
        THEN Lit("commercial")
        ELSE Lit("non_commercial")

(***************************************************************************)
(* _extract_text_from_xml.  A document is a root element holding, each at  *)
(* most once, a license statement, an article-title, an abstract and a     *)
(* body with character data only; its markup tags are pieces of their own. *)
(* The parser accepts a document whose root and elements are all closed.   *)
(***************************************************************************)
Elements == {"license", "article-title", "abstract", "body"}
Open(e) == CASE e = "article" -> "<article>"
             [] e = "license" -> "<license>"
             [] e = "article-title" -> "<article-title>"
             [] e = "abstract" -> "<abstract>"
             [] e = "body" -> "<body>"
Close(e) == CASE e = "article" -> "</article>"
              [] e = "license" -> "</license>"
              [] e = "article-title" -> "</article-title>"
              [] e = "abstract" -> "</abstract>"
              [] e = "body" -> "</body>"

\* Position of the first run of piece c in s, 0 if none.
IndexOf(s, c) ==
    IF \E i \in 1..Len(s) : s[i].c = c
    THEN CHOOSE i \in 1..Len(s) : s[i].c = c /\ \A j \in 1..(i - 1) : s[j].c # c
    ELSE 0

\* ET.fromstring succeeds
WellFormed(xml) ==
    /\ xml # <<>>
    /\ xml[1].c = Open("article")
    /\ xml[Len(xml)].c = Close("article")
    /\ \A e \in Elements :
         IndexOf(xml, Open(e)) # 0 => IndexOf(xml, Close(e)) > IndexOf(xml, Open(e))

\* root.findall(".//e") is not empty
HasElement(xml, e) == IndexOf(xml, Open(e)) # 0

\* "".join(element.itertext())
ElementText(xml, e) ==
    SubSeq(xml, IndexOf(xml, Open(e)) + 1, IndexOf(xml, Close(e)) - 1)

\* s.strip(), on runs
RECURSIVE StripStr(_)
StripStr(s) ==
    IF s = <<>> THEN s
    ELSE IF Head(s).c \in Whitespace THEN StripStr(Tail(s))
    ELSE IF s[Len(s)].c \in Whitespace THEN StripStr(SubSeq(s, 1, Len(s) - 1))
    ELSE s

\* "\n\n".join(parts)
RECURSIVE Join(_)
Join(parts) ==
    IF parts = <<>> THEN <<>>
    ELSE IF Len(parts) = 1 THEN parts[1]
    ELSE Cat(parts[1], Cat(S(<<"\n", "\n">>), Join(Tail(parts))))

TitleLabel == S(<<"T", "i", "t", "l", "e", ":", " ">>)
AbstractLabel == S(<<"A", "b", "s", "t", "r", "a", "c", "t", ":", " ">>)
ContentLabel == S(<<"C", "o", "n", "t", "e", "n", "t", ":", " ">>)
NoReadableText ==
    S(<<"N", "o", " ", "r", "e", "a", "d", "a", "b", "l", "e", " ", "t", "e", "x", "t", " ",
        "c", "o", "n", "t", "e", "n", "t", " ", "f", "o", "u", "n", "d", " ",
        "i", "n", " ", "a", "r", "t", "i", "c", "l", "e">>)
\* f"Error parsing XML content: {parse_error}", with the parser's own text
ParseErrorText ==
    S(<<"E", "r", "r", "o", "r", " ", "p", "a", "r", "s", "i", "n", "g", " ", "X", "M", "L", " ",
        "c", "o", "n", "t", "e", "n", "t", ":", " ",
        "s", "y", "n", "t", "a", "x", " ", "e", "r", "r", "o", "r">>)

\* Mutant of _extract_text_from_xml: the empty combined text is returned
\* where the sentinel belongs.
_extract_text_from_xml_without_sentinel(xml_content) ==
    IF ~WellFormed(xml_content) THEN ParseErrorText
    ELSE
      LET titleText == ElementText(xml_content, "article-title")
          abstractText == StripStr(ElementText(xml_content, "abstract"))
          bodyText == StripStr(ElementText(xml_content, "body"))
          titles == IF HasElement(xml_content, "article-title") /\ titleText # <<>>
                    THEN <<Cat(TitleLabel, StripStr(titleText))>> ELSE <<>>
          abstracts == IF HasElement(xml_content, "abstract") /\ abstractText # <<>>
                       THEN <<Cat(AbstractLabel, abstractText)>> ELSE <<>>
          bodies == IF HasElement(xml_content, "body") /\ bodyText # <<>>
                    THEN <<Cat(ContentLabel, bodyText)>> ELSE <<>>
      IN  Join(titles \o abstracts \o bodies)

_extract_text_from_xml(xml_content) ==
    IF ~WellFormed(xml_content) THEN ParseErrorText
    ELSE
      LET titleText == ElementText(xml_content, "article-title")
          abstractText == StripStr(ElementText(xml_content, "abstract"))
          bodyText == StripStr(ElementText(xml_content, "body"))
          titles == IF HasElement(xml_content, "article-title") /\ titleText # <<>>
                    THEN <<Cat(TitleLabel, StripStr(titleText))>> ELSE <<>>
          abstracts == IF HasElement(xml_content, "abstract") /\ abstractText # <<>>
                       THEN <<Cat(AbstractLabel, abstractText)>> ELSE <<>>
          bodies == IF HasElement(xml_content, "body") /\ bodyText # <<>>
                    THEN <<Cat(ContentLabel, bodyText)>> ELSE <<>>
          combined_text == Join(titles \o abstracts \o bodies)
      IN  IF StripStr(combined_text) = <<>> THEN NoReadableText ELSE combined_text

(***************************************************************************)
(* The objects the store may hold.  One family varies the license          *)
(* statement (every text of at most MaxChunks chunks) in a document with a *)
(* title and a short or an over-long body; the other varies the document   *)
(* (each element absent or present, the root closed or not) under a        *)
(* permissive and under a restrictive statement.  A long body is a run of  *)
(* filler that brings the extracted text (the nine characters of its label *)
(* and the body) exactly to CONTENT_CHARACTER_LIMIT characters, or one     *)
(* above.                                                                  *)
(***************************************************************************)
LicenseChunks ==
    { <<"C", "C", "0">>,
      <<"C", "C", " ", "B", "Y", "-", "N", "C">>,
      <<"P", "u", "b", "l", "i", "c", " ", "D", "o", "m", "a", "i", "n">>,
      <<"c">>,
      <<"C", "0">>,
      <<"r", "e", "s", "e", "r", "v", "e", "d">> }

RECURSIVE Flatten(_)
Flatten(ss) == IF ss = <<>> THEN <<>> ELSE Head(ss) \o Flatten(Tail(ss))

LicenseTexts == {S(Flatten(cs)) : cs \in SeqsUpTo(LicenseChunks, MaxChunks)}

\* An element that the document lacks (no string has an empty run).
NoElement == <<Run("absent", 0)>>
TitleTexts == {NoElement, S(<<"T">>)}
AbstractTexts == {NoElement, S(<<"A">>)}
BodyTexts ==
    {NoElement, S(<<"B">>)} \cup
    {<<Run("x", CONTENT_CHARACTER_LIMIT - 9 + d)>> : d \in {0, 1}}

Element(e, txt) ==
    IF txt = NoElement THEN <<>> ELSE S(<<Open(e)>>) \o txt \o S(<<Close(e)>>)

Document(lic, ti, ab, bo, closed) ==
    Norm(S(<<Open("article")>>)
         \o Element("license", lic) \o Element("article-title", ti)
         \o Element("abstract", ab) \o Element("body", bo)
         \o (IF closed THEN S(<<Close("article")>>) ELSE <<>>))

LicenseVariants ==
    {Document(lic, S(<<"T">>), NoElement, bo, TRUE) :
        lic \in LicenseTexts,
        bo \in {S(<<"B">>), <<Run("x", CONTENT_CHARACTER_LIMIT - 9 + 1)>>}}

SectionVariants ==
    {Document(lic, ti, ab, bo, closed) :
        lic \in {S(<<"C", "C", "0">>), S(<<"r", "e", "s", "e", "r", "v", "e", "d">>)},
        ti \in TitleTexts, ab \in AbstractTexts, bo \in BodyTexts, closed \in BOOLEAN}

Objects == LicenseVariants \cup SectionVariants

(***************************************************************************)
(* read_pubmed.                                                            *)
(***************************************************************************)
PmcidInputs ==
    NonStrings \cup
    { PyStr(<<>>),
      PyStr(S(<<" ", " ">>)),
      PyStr(S(<<"P", "M", "C", "1">>)),
      PyStr(S(<<" ", "P", "M", "C", "1", "2", " ">>)),
      PyStr(S(<<"6", "0", "3", "3", "0", "4", "1">>)),
      PyStr(S(<<"P", "M", "C", "1", "x">>)) }

SourceInputs ==
    { PyNone,
      PyInt("123"),
      PyStr(<<>>),
      PyStr(S(<<"h", "t", "t", "p", "s", ":", "/", "/", "d", "o", "i", ".", "o", "r", "g",
                "/", "1", "0", ".", "1", "/", "x">>)),
      PyStr(S(<<"f", "t", "p", ":", "/", "/", "x">>)) }

Init ==
    /\ fn = "read_pubmed"
    /\ arg = PyNone
    /\ ret = "pending"
    /\ pc = "validate"
    /\ pmcid \in PmcidInputs
    /\ source \in SourceInputs
    /\ calls = <<>>
    /\ raw = <<>>
    /\ text = <<>>
    /\ sumResult = "none"
    /\ response = NoResponse
    /\ raised = "none"
    /\ SearchIdle
    /\ SupIdle

_format_validation_error_message(id) ==
    Cat(S(<<"Invalid PMCID format: '">>),
        Cat(Format(id),
            S(<<"'. PMCID must start with 'PMC' followed by digits (e.g., 'PMC6033041').">>)))

_format_source_validation_error_message(src) ==
    Cat(S(<<"Invalid source URL format: '">>),
        Cat(Format(src), S(<<"'. Source must be a valid HTTP or HTTPS URL.">>)))

\* s3_path = f"oa_comm/xml/all/{pmcid}.xml"
S3Path(id) == PyStr(Cat(S(<<"oa_comm/xml/all/">>), Cat(Format(id), S(<<".xml">>))))

\* read_pubmed's handler of PMCValidationError and PMCSourceValidationError
ValidationErrorResponse(message) ==
    PMCArticleResponse(Lit("error"), PyNone, PyStr(message),
                       IF Truthy(pmcid) THEN pmcid ELSE Lit("invalid"),
                       PyNone, PyNone, source)

\* Mutant of S3ErrorResponse: the error response keeps a license type.
S3ErrorResponseWithLicense(message) ==
    PMCArticleResponse(Lit("error"), PyNone,
                       PyStr(Cat(S(<<"S3 access error: ">>), message)),
                       pmcid, Lit("non_commercial"), PyNone, source)

\* read_pubmed's handler of PMCS3Error
S3ErrorResponse(message) ==
    PMCArticleResponse(Lit("error"), PyNone,
                       PyStr(Cat(S(<<"S3 access error: ">>), message)),
                       pmcid, PyNone, PyNone, source)

\* _retrieve_pmc_article's last handler: whatever is raised inside it leaves
\* it as PMCS3Error("Unexpected S3 operation error: ...").
Unexpected(message) == Cat(S(<<"Unexpected S3 operation error: ">>), message)

\* A response built in one of read_pubmed's handlers: the self-check's
\* ValueError leaves read_pubmed, since no handler encloses the handlers.
\* (read_pubmed's last handler, of any other Exception, is never entered:
\* the validators are total and _retrieve_pmc_article turns whatever is
\* raised inside it into PMCS3Error.)
ReturnFromHandler(r) ==
    IF _validate_response(r) = "ok"
    THEN /\ pc' = "returned"
         /\ response' = to_dict(r)
         /\ raised' = "none"
    ELSE /\ pc' = "raised"
         /\ response' = NoResponse
         /\ raised' = _validate_response(r)

\* A response built in _retrieve_pmc_article: the self-check's ValueError is
\* caught there and becomes a PMCS3Error.
ReturnFromRetrieve(r) ==
    IF _validate_response(r) = "ok"
    THEN /\ pc' = "returned"
         /\ response' = to_dict(r)
         /\ raised' = "none"
    ELSE ReturnFromHandler(S3ErrorResponse(Unexpected(S(<<"<ValueError>">>))))

\* Mutant of NotFoundResponse: s3_path left unset, as in the error responses.
NotFoundResponseWithoutPath(id, src) ==
    PMCArticleResponse(
        Lit("not_found"), PyNone,
        PyStr(Cat(S(<<"Article ">>),
                  Cat(Format(id), S(<<" not found in PMC Open Access dataset">>)))),
        id, PyNone, PyNone, src)

\* The responses _retrieve_pmc_article builds.
NotFoundResponse(id, src) ==
    PMCArticleResponse(
        Lit("not_found"), PyNone,
        PyStr(Cat(S(<<"Article ">>),
                  Cat(Format(id), S(<<" not found in PMC Open Access dataset">>)))),
        id, PyNone, S3Path(id), src)

SuccessResponse(id, src, processed_content, license_type) ==
    PMCArticleResponse(
        Lit("success"), PyStr(processed_content),
        PyStr(Cat(S(<<"Successfully retrieved and processed article ">>), Format(id))),
        id, license_type, S3Path(id), src)

LicensingRestrictionResponse(id, src, license_type) ==
    PMCArticleResponse(
        Lit("licensing_restriction"), PyNone,
        PyStr(Cat(S(<<"Article ">>),
                  Cat(Format(id), S(<<" has non-commercial license restrictions">>)))),
        id, license_type, S3Path(id), src)

\* An external call: the operation, the key it names, how it ended.
Call(op, key, outcome) == [op |-> op, key |-> key, outcome |-> outcome]

\* Steps 1 and 2: the two validations and their handler.
Validate ==
    /\ pc = "validate"
    /\ IF ~_validate_pmcid(pmcid)
       THEN ReturnFromHandler(
                ValidationErrorResponse(_format_validation_error_message(pmcid)))
       ELSE IF ~IsNone(source) /\ ~_validate_source_url(source)
       THEN ReturnFromHandler(
                ValidationErrorResponse(_format_source_validation_error_message(source)))
       ELSE /\ pc' = "head_object"
            /\ UNCHANGED <<response, raised>>
    /\ UNCHANGED <<pureVars, pmcid, source, calls, raw, text, sumResult>>
    /\ UNCHANGED searchVars
    /\ UNCHANGED supVars

\* boto3.client("s3") and the existence probe.  "no_client": the client
\* cannot be built, nothing is sent; "found": the object exists; "404" and
\* "403": ClientError with that code; "no_credentials": NoCredentialsError;
\* "other": any other exception.
HeadOutcomes == {"no_client", "found", "404", "403", "no_credentials", "other"}

\* Mutant of HeadObject: a probe refused with 403 is taken as found and the
\* fetch follows.
HeadObjectProceedsOn403 ==
    /\ pc = "head_object"
    /\ \E outcome \in HeadOutcomes :
         /\ calls' = IF outcome = "no_client" THEN calls
                     ELSE Append(calls, Call("head_object", S3Path(pmcid), outcome))
         /\ CASE outcome \in {"found", "403"} ->
                   /\ pc' = "get_object"
                   /\ UNCHANGED <<response, raised>>
              [] outcome = "404" ->
                   ReturnFromRetrieve(NotFoundResponse(pmcid, source))
              [] outcome = "no_credentials" ->
                   ReturnFromHandler(S3ErrorResponse(
                       S(<<"AWS credentials not configured: ", "<NoCredentialsError>">>)))
              [] OTHER ->
                   ReturnFromHandler(S3ErrorResponse(Unexpected(S(<<"<Exception>">>))))
    /\ UNCHANGED <<pureVars, pmcid, source, raw, text, sumResult>>
    /\ UNCHANGED searchVars
    /\ UNCHANGED supVars

HeadObject ==
    /\ pc = "head_object"
    /\ \E outcome \in HeadOutcomes :
         /\ calls' = IF outcome = "no_client" THEN calls
                     ELSE Append(calls, Call("head_object", S3Path(pmcid), outcome))
         /\ CASE outcome = "found" ->
                   /\ pc' = "get_object"
                   /\ UNCHANGED <<response, raised>>
              [] outcome = "404" ->
                   ReturnFromRetrieve(NotFoundResponse(pmcid, source))
              [] outcome = "403" ->
                   ReturnFromHandler(S3ErrorResponse(
                       Unexpected(S(<<"S3 access error: ", "<ClientError>">>))))
              [] outcome = "no_credentials" ->
                   ReturnFromHandler(S3ErrorResponse(
                       S(<<"AWS credentials not configured: ", "<NoCredentialsError>">>)))
              [] OTHER ->
                   ReturnFromHandler(S3ErrorResponse(Unexpected(S(<<"<Exception>">>))))
    /\ UNCHANGED <<pureVars, pmcid, source, raw, text, sumResult>>
    /\ UNCHANGED searchVars
    /\ UNCHANGED supVars

\* Mutant of ExceedsLimit: >= for >.
ExceedsLimitInclusive(extracted_text) == StrLen(extracted_text) >= CONTENT_CHARACTER_LIMIT

\* len(extracted_text) > CONTENT_CHARACTER_LIMIT
ExceedsLimit(extracted_text) == StrLen(extracted_text) > CONTENT_CHARACTER_LIMIT

\* The download, the decoding, the license check and, for a commercial
\* license, the text extraction and the length check.
GetOutcomes == {"fetched", "client_error", "decode_error", "other"}

GetObject ==
    /\ pc = "get_object"
    /\ \E outcome \in GetOutcomes :
         /\ calls' = Append(calls, Call("get_object", S3Path(pmcid), outcome))
         /\ CASE outcome = "fetched" ->
                \E raw_content \in Objects :
                  LET license_type == _determine_license_type(raw_content)
                      extracted_text == _extract_text_from_xml(raw_content)
                  IN  /\ raw' = raw_content
                      /\ IF license_type = Lit("commercial")
                         THEN /\ text' = extracted_text
                              /\ IF ExceedsLimit(extracted_text)
                                 THEN /\ pc' = "summarize"
                                      /\ UNCHANGED <<response, raised>>
                                 ELSE ReturnFromRetrieve(
                                          SuccessResponse(pmcid, source, extracted_text,
                                                          license_type))
                         ELSE /\ text' = text
                              /\ ReturnFromRetrieve(
                                     LicensingRestrictionResponse(pmcid, source, license_type))
           [] outcome = "client_error" ->
                /\ ReturnFromHandler(S3ErrorResponse(
                       Unexpected(S(<<"Failed to download article: ", "<ClientError>">>))))
                /\ UNCHANGED <<raw, text>>
           [] outcome = "decode_error" ->
                /\ ReturnFromHandler(S3ErrorResponse(
                       Unexpected(S(<<"Failed to decode article content: ",
                                      "<UnicodeDecodeError>">>))))
                /\ UNCHANGED <<raw, text>>
           [] OTHER ->
                /\ ReturnFromHandler(S3ErrorResponse(Unexpected(S(<<"<Exception>">>))))
                /\ UNCHANGED <<raw, text>>
    /\ UNCHANGED <<pureVars, pmcid, source, sumResult>>
    /\ UNCHANGED searchVars
    /\ UNCHANGED supVars

\* _summarize_content and the success response built from what it returns.
\* "no_client": boto3.client("bedrock-runtime") raises, nothing is sent;
\* "summary": invoke_model answers with a summary (a string, by the
\* service's contract); "client_error": invoke_model raises ClientError;
\* "other_error": invoke_model or the reading of its answer raises
\* anything else.
SumOutcomes == {"no_client", "summary", "client_error", "other_error"}
Summaries == {<<>>, S(<<"<summary>">>)}
SummarizationErrorNotice == S(<<"... [Content truncated due to summarization error]">>)
ErrorNotice == S(<<"... [Content truncated due to error]">>)

\* Mutant of _summarize_content: the fallback cuts at the prompt's 50000
\* characters instead of TARGET_SUMMARY_LENGTH.
_summarize_content_prompt_slice(content, outcome, summary) ==
    CASE outcome = "summary" -> summary
      [] outcome = "client_error" -> Cat(Take(content, 50000), SummarizationErrorNotice)
      [] OTHER -> Cat(Take(content, 50000), ErrorNotice)

_summarize_content(content, outcome, summary) ==
    CASE outcome = "summary" -> summary
      [] outcome = "client_error" ->
           Cat(Take(content, TARGET_SUMMARY_LENGTH), SummarizationErrorNotice)
      [] OTHER -> Cat(Take(content, TARGET_SUMMARY_LENGTH), ErrorNotice)

Summarize ==
    /\ pc = "summarize"
    /\ \E outcome \in SumOutcomes, summary \in Summaries :
         /\ outcome # "summary" => summary = <<>>
         /\ sumResult' = outcome
         /\ calls' = IF outcome = "no_client" THEN calls
                     ELSE Append(calls, Call("invoke_model", PyNone, outcome))
         /\ ReturnFromRetrieve(
                SuccessResponse(pmcid, source, _summarize_content(text, outcome, summary),
                                Lit("commercial")))
    /\ UNCHANGED <<pureVars, pmcid, source, raw, text>>
    /\ UNCHANGED searchVars
    /\ UNCHANGED supVars

Next == Validate \/ HeadObject \/ GetObject \/ Summarize

Spec == Init /\ [][Next]_vars

(***************************************************************************)
(* Claims about read_pubmed.                                               *)
(***************************************************************************)
Returned == pc = "returned"
Done == pc \in {"returned", "raised"}
Fetched == \E i \in DOMAIN calls : calls[i].op = "get_object" /\ calls[i].outcome = "fetched"
Issued(op) == \E i \in DOMAIN calls : calls[i].op = op

(***************************************************************************)
(* C1: every response read_pubmed returns satisfies the status table:      *)
(* success has a string content, license_type commercial and an s3_path;   *)
(* licensing_restriction has no content, license_type non_commercial and   *)
(* an s3_path; not_found and error have no content and no license_type;    *)
(* the message is a non-empty string in all four.                          *)
(***************************************************************************)
C1_ReturnedResponseObeysStatusTable ==
    Returned =>
        /\ response.status \in valid_statuses
        /\ response.status = Lit("success") =>
             /\ IsStr(response.content)
             /\ response.license_type = Lit("commercial")
             /\ IsStr(response.s3_path) /\ response.s3_path.s # <<>>
        /\ response.status = Lit("licensing_restriction") =>
             /\ IsNone(response.content)
             /\ response.license_type = Lit("non_commercial")
             /\ IsStr(response.s3_path) /\ response.s3_path.s # <<>>
        /\ response.status \in {Lit("not_found"), Lit("error")} =>
             /\ IsNone(response.content)
             /\ IsNone(response.license_type)
        /\ IsStr(response.message)
        /\ response.message.s # <<>>

\* A summarized article is returned.
C1_Witness ==
    Returned /\ response.status = Lit("success") /\ sumResult = "summary"

(***************************************************************************)
(* C3: read_pubmed never raises: whatever the pmcid (a string or not), the *)
(* source and the outcomes of the external calls, it returns a dictionary  *)
(* whose status is one of the four.                                        *)
(***************************************************************************)
C3_ReadPubmedNeverRaises ==
    /\ pc # "raised"
    /\ raised = "none"
    /\ Returned => response.status \in valid_statuses

(***************************************************************************)
(* C6: no object-store call and no summarization call is issued unless     *)
(* the identifier passed _validate_pmcid and the source is null or passed  *)
(* _validate_source_url; when either validation fails, the call ends with  *)
(* status error and no external call.                                      *)
(***************************************************************************)
ValidationPassed ==
    /\ _validate_pmcid(pmcid)
    /\ IsNone(source) \/ _validate_source_url(source)

C6_ValidationGatesExternalCalls ==
    /\ calls # <<>> => ValidationPassed
    /\ (pc # "validate" /\ ~ValidationPassed) =>
         /\ Returned
         /\ response.status = Lit("error")
         /\ calls = <<>>

(***************************************************************************)
(* C7: when the existence probe reports the object missing, read_pubmed    *)
(* returns not_found with no content, no license_type and the s3_path set  *)
(* to the key derived from the identifier, and get_object is not called;   *)
(* when the probe fails otherwise the status is error; the probe is sent   *)
(* at most once.                                                           *)
(***************************************************************************)
DerivedKey == PyStr(Cat(S(<<"oa_comm/xml/all/">>), Cat(pmcid.s, S(<<".xml">>))))

C7_MissingObjectIsNotFound ==
    /\ Cardinality({i \in DOMAIN calls : calls[i].op = "head_object"}) <= 1
    /\ calls # <<>> =>
         /\ calls[1].op = "head_object"
         /\ calls[1].key = DerivedKey
         /\ calls[1].outcome = "404" =>
              /\ Returned
              /\ response.status = Lit("not_found")
              /\ IsNone(response.content)
              /\ IsNone(response.license_type)
              /\ response.s3_path = DerivedKey
              /\ ~Issued("get_object")
         /\ calls[1].outcome \notin {"found", "404"} =>
              /\ Returned
              /\ response.status = Lit("error")
              /\ Len(calls) = 1

\* The probe of a valid identifier found nothing.
C7_Witness ==
    /\ Returned
    /\ calls # <<>>
    /\ calls[1].outcome = "404"
    /\ response.status = Lit("not_found")

(***************************************************************************)
(* C8: after a successful fetch and decode the status is success (license  *)
(* commercial, content set) exactly when the decoded content contains,     *)
(* ignoring case, one of the permissive markers; otherwise it is           *)
(* licensing_restriction with license non_commercial and no content.       *)
(***************************************************************************)
PermissiveMarkers ==
    { <<"c", "c", "0">>,
      <<"c", "c", " ", "b", "y">>,
      <<"c", "r", "e", "a", "t", "i", "v", "e", " ", "c", "o", "m", "m", "o", "n", "s",
        " ", "a", "t", "t", "r", "i", "b", "u", "t", "i", "o", "n">>,
      <<"p", "u", "b", "l", "i", "c", " ", "d", "o", "m", "a", "i", "n">> }

HasPermissiveMarker(content) ==
    \E m \in PermissiveMarkers : Contains(Lower(content), m)

C8_SuccessIffPermissiveMarker ==
    (Fetched /\ Done) =>
        /\ Returned
        /\ IF HasPermissiveMarker(raw)
           THEN /\ response.status = Lit("success")
                /\ response.license_type = Lit("commercial")
                /\ ~IsNone(response.content)
           ELSE /\ response.status = Lit("licensing_restriction")
                /\ response.license_type = Lit("non_commercial")
                /\ IsNone(response.content)

\* A document whose marker is found only by ignoring case is released.
C8_Witness ==
    /\ Returned
    /\ Fetched
    /\ HasPermissiveMarker(raw)
    /\ \A m \in PermissiveMarkers : ~Contains(raw, m)
    /\ response.status = Lit("success")

(***************************************************************************)
(* C9: the summarization is invoked exactly when the license is commercial *)
(* and the extracted text is longer than 100,000 characters; a text of     *)
(* 100,000 characters or fewer is returned as the content unchanged, with  *)
(* no summarization call.                                                  *)
(***************************************************************************)
Summarized == sumResult # "none"

C9_SummarizedIffOverLimit ==
    /\ ~Summarized => ~Issued("invoke_model")
    /\ (Fetched /\ Done) =>
         /\ Summarized <=> (HasPermissiveMarker(raw) /\ StrLen(text) > 100000)
         /\ (HasPermissiveMarker(raw) /\ StrLen(text) <= 100000) =>
              /\ response.content = PyStr(text)
              /\ ~Issued("invoke_model")

\* A text of exactly 100,000 characters is returned as it is.
C9_Witness ==
    /\ Returned
    /\ Fetched
    /\ StrLen(text) = 100000
    /\ response.content = PyStr(text)
    /\ ~Summarized

(***************************************************************************)
(* C10: when the summarization fails, read_pubmed still returns success,   *)
(* and the content is the first 10,000 characters of the extracted text    *)
(* followed by a truncation notice.                                        *)
(***************************************************************************)
SummarizationFailed == sumResult \in {"no_client", "client_error", "other_error"}

C10_FailedSummaryFallsBackToTruncation ==
    SummarizationFailed =>
        /\ Returned
        /\ response.status = Lit("success")
        /\ StrLen(Take(text, 10000)) = 10000
        /\ \E notice \in {SummarizationErrorNotice, ErrorNotice} :
             response.content = PyStr(Cat(Take(text, 10000), notice))

\* invoke_model raised and the truncated text was returned.
C10_Witness ==
    /\ Returned
    /\ sumResult = "client_error"
    /\ Issued("invoke_model")
    /\ response.status = Lit("success")

(***************************************************************************)
(* C11: a read_pubmed invocation issues at most two object-store calls and *)
(* at most one summarization call, each at most once, in the order probe,  *)
(* fetch, summarization: the fetch only after a probe that found the       *)
(* object, the summarization only after a fetch that succeeded and whose   *)
(* content was classified commercial.                                      *)
(***************************************************************************)
CallOrder == <<"head_object", "get_object", "invoke_model">>

C11_CallsInOrderAtMostOnce ==
    /\ Len(calls) <= Len(CallOrder)
    /\ \A i \in DOMAIN calls : calls[i].op = CallOrder[i]
    /\ Len(calls) >= 2 => calls[1].outcome = "found"
    /\ Len(calls) >= 3 =>
         /\ calls[2].outcome = "fetched"
         /\ _determine_license_type(raw) = Lit("commercial")

\* The three calls were issued and the invocation is over.
C11_Witness ==
    /\ Done
    /\ Len(calls) = 3
    /\ calls[3].op = "invoke_model"

(***************************************************************************)
(* PMCArticleResponse(...) constructed from each combination of fields.    *)
(***************************************************************************)
StatusArgs == valid_statuses \cup {Lit("pending")}
ContentArgs == {PyNone, PyStr(<<>>), Lit("article text"), PyInt("123")}
MessageArgs == {PyNone, PyStr(<<>>), PyStr(S(<<" ">>)), Lit("a message")}
PmcidFieldArgs == {PyNone, PyStr(<<>>), PyStr(S(<<"P", "M", "C", "1">>)), PyInt("123")}
LicenseArgs == valid_license_types \cup {PyNone, Lit("proprietary")}
S3PathArgs == {PyNone, PyStr(<<>>), Lit("oa_comm/xml/all/PMC1.xml")}

ResponseArgs ==
    {PMCArticleResponse(st, co, me, id, li, pa, PyNone) :
        st \in StatusArgs, co \in ContentArgs, me \in MessageArgs,
        id \in PmcidFieldArgs, li \in LicenseArgs, pa \in S3PathArgs}

InitResponse ==
    /\ fn = "PMCArticleResponse"
    /\ arg \in ResponseArgs
    /\ ret = "pending"
    /\ ReadIdle
    /\ SearchIdle
    /\ SupIdle

ApplyPostInit ==
    /\ fn = "PMCArticleResponse"
    /\ ret = "pending"
    /\ ret' = _validate_response(arg)
    /\ UNCHANGED <<fn, arg, readVars>>
    /\ UNCHANGED searchVars
    /\ UNCHANGED supVars

SpecResponse == InitResponse /\ [][ApplyPostInit]_vars

(***************************************************************************)
(* C2: constructing a PMCArticleResponse whose fields are inconsistent     *)
(* with the status table raises: success without content, with a license   *)
(* other than commercial or without s3_path; licensing_restriction with    *)
(* content, with a license other than non_commercial or without s3_path;   *)
(* not_found or error with content or with a license_type set; any status  *)
(* with an empty message.                                                  *)
(***************************************************************************)
InconsistentWithTable(r) ==
    \/ /\ r.status = Lit("success")
       /\ \/ IsNone(r.content)
          \/ r.license_type # Lit("commercial")
          \/ ~Truthy(r.s3_path)
    \/ /\ r.status = Lit("licensing_restriction")
       /\ \/ ~IsNone(r.content)
          \/ r.license_type # Lit("non_commercial")
          \/ ~Truthy(r.s3_path)
    \/ /\ r.status \in {Lit("not_found"), Lit("error")}
       /\ \/ ~IsNone(r.content)
          \/ ~IsNone(r.license_type)
    \/ /\ r.status \in valid_statuses
       /\ IsStr(r.message)
       /\ r.message.s = <<>>

C2_InconsistentFieldsRejected ==
    (ret # "pending" /\ InconsistentWithTable(arg)) => ret = "ValueError"

(***************************************************************************)
(* C4: _validate_pmcid returns true exactly when its input is a string     *)
(* that, with surrounding whitespace trimmed, is "PMC" followed by one or  *)
(* more ASCII digits and nothing else.                                     *)
(***************************************************************************)
IsPmcAsciiId(t) ==
    /\ Len(t) >= 4
    /\ SubSeq(t, 1, 3) = <<"P", "M", "C">>
    /\ \A i \in 4..Len(t) : t[i] \in AsciiDigit

C4_PmcidTrueIffAsciiId ==
    ret # "pending" =>
        (ret = "True" <=> (IsStr(arg) /\ IsPmcAsciiId(Strip(Expand(arg.s)))))

(***************************************************************************)
(* C5: _validate_source_url returns true exactly when the trimmed string   *)
(* begins with "http://" or "https://", at least one character follows,    *)
(* the first of them is none of "/", ".", "?", "#", "$", and no whitespace *)
(* occurs after the scheme.                                                *)
(***************************************************************************)
HasScheme(t, p) ==
    /\ Len(t) >= p
    /\ \/ p = 7 /\ SubSeq(t, 1, 7) = <<"h", "t", "t", "p", ":", "/", "/">>
       \/ p = 8 /\ SubSeq(t, 1, 8) = <<"h", "t", "t", "p", "s", ":", "/", "/">>

IsClaimedUrl(t) ==
    \E p \in {7, 8} :
      /\ HasScheme(t, p)
      /\ Len(t) >= p + 1
      /\ t[p + 1] \notin {"/", ".", "?", "#", "$"}
      /\ \A i \in (p + 1)..Len(t) : t[i] \notin Whitespace

C5_SourceUrlTrueIffClaimed ==
    ret # "pending" =>
        (ret = "True" <=> (IsStr(arg) /\ IsClaimedUrl(Strip(Expand(arg.s)))))

(***************************************************************************)
(* The two searches: search_pubmed (search_pubmed_simple.py) and           *)
(* lambda_handler with perform_pubmed_search (search_pubmed_bedrock.py).   *)
(*                                                                         *)
(* Values.  An int carries its number; bool(v) of an int is v != 0.        *)
(***************************************************************************)
PyNum(k) == [t |-> "int", n |-> k]
IsInt(v) == v.t = "int"
Bool(v) == IF IsInt(v) THEN v.n # 0 ELSE Truthy(v)

\* int(v) for a str v: surrounding whitespace is dropped, a sign may lead,
\* and the rest is one or more decimal digits (Unicode digits included);
\* anything else raises ValueError.
ValueError == [t |-> "ValueError", n |-> 0]

DigitValue(c) ==
    CASE c = "0" -> 0 [] c = "1" -> 1 [] c = "2" -> 2 [] c = "3" -> 3 [] c = "4" -> 4
      [] c = "5" -> 5 [] c = "6" -> 6 [] c = "7" -> 7 [] c = "8" -> 8 [] c = "9" -> 9
      [] c = "U+0663" -> 3

RECURSIVE DigitsValue(_, _)
DigitsValue(t, acc) ==
    IF t = <<>> THEN acc ELSE DigitsValue(Tail(t), 10 * acc + DigitValue(Head(t)))

int(v) ==
    LET t == Strip(Expand(v.s))
        signed == t # <<>> /\ Head(t) \in {"+", "-"}
        digits == IF signed THEN Tail(t) ELSE t
    IN  IF digits # <<>> /\ \A i \in DOMAIN digits : digits[i] \in UnicodeDigit
        THEN PyNum(IF signed /\ Head(t) = "-" THEN 0 - DigitsValue(digits, 0)
                   ELSE DigitsValue(digits, 0))
        ELSE ValueError

\* f"{n}" for an int n >= 0
DigitChar == <<"0", "1", "2", "3", "4", "5", "6", "7", "8", "9">>

RECURSIVE Dec(_)
Dec(n) ==
    IF n < 10 THEN S(<<DigitChar[n + 1]>>)
    ELSE Cat(Dec(n \div 10), S(<<DigitChar[(n % 10) + 1]>>))

\* sep.join(parts)
RECURSIVE JoinWith(_, _)
JoinWith(sep, parts) ==
    IF parts = <<>> THEN <<>>
    ELSE IF Len(parts) = 1 THEN parts[1]
    ELSE Glue(parts[1], Glue(sep, JoinWith(sep, Tail(parts))))

\* The concatenation of several strings.
RECURSIVE Concat(_)
Concat(parts) == IF parts = <<>> THEN <<>> ELSE Glue(Head(parts), Concat(Tail(parts)))

(***************************************************************************)
(* parse_pubmed_xml.  The detail-fetch document is modelled as the tree    *)
(* ET.fromstring builds from it: a sequence of PubmedArticle entries, each *)
(* giving, for every element the code looks up, Absent (find() returns     *)
(* None), PyNone (the element is there and its .text is None: it is empty  *)
(* or starts with a child element) or its text; Author is the sequence of  *)
(* Author elements with their LastName and ForeName.  A text that is not   *)
(* well-formed makes ET.fromstring raise ParseError.  No lookup of the     *)
(* loop body raises on such a tree, so every entry yields a record.        *)
(***************************************************************************)
PubmedArticle(PMID, ArticleTitle, AbstractText, Author, Title, Year, doi) ==
    [PMID |-> PMID, ArticleTitle |-> ArticleTitle, AbstractText |-> AbstractText,
     Author |-> Author, Title |-> Title, Year |-> Year, doi |-> doi]

AuthorElem(LastName, ForeName) == [LastName |-> LastName, ForeName |-> ForeName]

\* elem.text if elem is not None else default
TextOr(elem, default) == IF elem = Absent THEN default ELSE elem

NoTitleAvailable ==
    PyStr(S(<<"N", "o", " ", "t", "i", "t", "l", "e", " ", "a", "v", "a", "i",
             "l", "a", "b", "l", "e">>))
NoAbstractAvailable ==
    PyStr(S(<<"N", "o", " ", "a", "b", "s", "t", "r", "a", "c", "t", " ", "a",
             "v", "a", "i", "l", "a", "b", "l", "e">>))

RECURSIVE AuthorNames(_)
AuthorNames(elems) ==
    IF elems = <<>> THEN <<>>
    ELSE LET a == Head(elems)
         IN  (IF a.LastName # Absent /\ a.ForeName # Absent
              THEN <<Concat(<<Format(a.ForeName), S(<<" ">>), Format(a.LastName)>>)>>
              ELSE <<>>) \o AuthorNames(Tail(elems))

\* article_data of search_pubmed_simple.py: no referenced_by_count key.
article_data_simple(e) ==
    LET pmid_ == TextOr(e.PMID, Lit("Unknown"))
    IN  [pmid |-> pmid_,
         title |-> TextOr(e.ArticleTitle, NoTitleAvailable),
         abstract |-> TextOr(e.AbstractText, NoAbstractAvailable),
         authors |-> AuthorNames(e.Author),
         journal |-> TextOr(e.Title, Lit("Unknown Journal")),
         publication_year |-> TextOr(e.Year, Lit("Unknown")),
         doi |-> TextOr(e.doi, PyNone),
         pubmed_url |-> Concat(<<S(<<"https://pubmed.ncbi.nlm.nih.gov/">>), Format(pmid_),
                                 S(<<"/">>)>>)]

parse_pubmed_xml_simple(root) == [i \in DOMAIN root |-> article_data_simple(root[i])]

\* article_data of search_pubmed_bedrock.py
article_data(e) ==
    LET pmid_ == TextOr(e.PMID, Lit("Unknown"))
    IN  [pmid |-> pmid_,
         title |-> TextOr(e.ArticleTitle, NoTitleAvailable),
         abstract |-> TextOr(e.AbstractText, NoAbstractAvailable),
         authors |-> AuthorNames(e.Author),
         journal |-> TextOr(e.Title, Lit("Unknown Journal")),
         publication_year |-> TextOr(e.Year, Lit("Unknown")),
         doi |-> TextOr(e.doi, PyNone),
         pubmed_url |-> Concat(<<S(<<"https://pubmed.ncbi.nlm.nih.gov/">>), Format(pmid_),
                                 S(<<"/">>)>>),
         referenced_by_count |-> 0]

parse_pubmed_xml(root) == [i \in DOMAIN root |-> article_data(root[i])]

\* str(e) of the exception parse_pubmed_xml raises on a text that does not parse
InvalidXml == S(<<"Invalid XML response from PubMed: ", "<ParseError>">>)

\* ET.fromstring of xml.etree.ElementTree (search_pubmed_bedrock.py): the
\* root, or ParseError on a text that is not well-formed; an entity declared
\* in the document type declaration is accepted.
fromstring(xml_content) == IF xml_content.wellformed THEN "root" ELSE "ParseError"

\* ET.fromstring of defusedxml.ElementTree (search_pubmed_simple.py): the
\* parser raises EntitiesForbidden, a ValueError, at an entity declaration,
\* which stands in the prolog, before the root element.
defused_fromstring(xml_content) ==
    IF xml_content.entity_decl THEN "EntitiesForbidden" ELSE fromstring(xml_content)

\* str(e) of EntitiesForbidden
EntitiesForbidden == S(<<"<EntitiesForbidden>">>)

\* One call of parse_pubmed_xml: the exception that leaves it and the list
\* it returns.  "except ET.ParseError" handles ParseError alone.
ParseResult(raises, records) == [raises |-> raises, records |-> records]

parse_pubmed_xml_call(xml_content) ==
    IF fromstring(xml_content) = "ParseError"
    THEN ParseResult(Error("Exception", InvalidXml), <<>>)
    ELSE ParseResult(NoFailure, parse_pubmed_xml(xml_content.entries))

parse_pubmed_xml_simple_call(xml_content) ==
    CASE defused_fromstring(xml_content) = "ParseError" ->
             ParseResult(Error("Exception", InvalidXml), <<>>)
      [] defused_fromstring(xml_content) = "EntitiesForbidden" ->
             ParseResult(Error("EntitiesForbidden", EntitiesForbidden), <<>>)
      [] OTHER -> ParseResult(NoFailure, parse_pubmed_xml_simple(xml_content.entries))

(***************************************************************************)
(* calculate_citation_counts and the sort that follows it.                 *)
(***************************************************************************)
\* The test of one pair: article['pmid'] != other_article['pmid'] and
\* article['title'].lower() in other_article['abstract'].lower().  The
\* right operand is evaluated only when the identifiers differ; .lower()
\* of a title or an abstract that is None raises AttributeError.
Cites(other_article, article) ==
    IF article.pmid = other_article.pmid THEN "false"
    ELSE IF ~IsStr(article.title) \/ ~IsStr(other_article.abstract) THEN "raise"
    ELSE IF Contains(Lower(other_article.abstract.s), Expand(Lower(article.title.s)))
         THEN "true"
         ELSE "false"

\* The inner loop for the article at position i raises.
CountRaises(arts, i) == \E j \in DOMAIN arts : Cites(arts[j], arts[i]) = "raise"

\* citation_count after the inner loop for the article at position i
citation_count(arts, i) ==
    Cardinality({j \in DOMAIN arts : Cites(arts[j], arts[i]) = "true"})

\* The first position whose inner loop raises; Len(arts) + 1 if none does.
FirstRaise(arts) ==
    IF \E i \in DOMAIN arts : CountRaises(arts, i)
    THEN CHOOSE i \in DOMAIN arts :
             /\ CountRaises(arts, i)
             /\ \A k \in 1..(i - 1) : ~CountRaises(arts, k)
    ELSE Len(arts) + 1

calculate_citation_counts_raises(arts) == FirstRaise(arts) <= Len(arts)

\* The list as the function leaves it: the records are updated in place,
\* one after the other, so those before the first raise carry their count.
calculate_citation_counts(arts) ==
    LET first == FirstRaise(arts)
    IN  [i \in DOMAIN arts |->
            IF i < first
            THEN [arts[i] EXCEPT !.referenced_by_count = citation_count(arts, i)]
            ELSE arts[i]]

\* x.get('referenced_by_count', 0)
GetCount(x) == IF "referenced_by_count" \in DOMAIN x THEN x.referenced_by_count ELSE 0

\* articles.sort(key=..., reverse=True): list.sort is stable, also in
\* reverse; each record is placed behind those whose key is not smaller.
RECURSIVE InsertByCount(_, _)
InsertByCount(sorted, x) ==
    IF sorted = <<>> THEN <<x>>
    ELSE IF GetCount(Head(sorted)) >= GetCount(x)
         THEN <<Head(sorted)>> \o InsertByCount(Tail(sorted), x)
         ELSE <<x>> \o sorted

RECURSIVE SortByCount(_)
SortByCount(arts) ==
    IF arts = <<>> THEN <<>>
    ELSE InsertByCount(SortByCount(SubSeq(arts, 1, Len(arts) - 1)), arts[Len(arts)])

(***************************************************************************)
(* format_search_results.  len(abstract) raises TypeError when the         *)
(* abstract is None.                                                       *)
(***************************************************************************)
TypeError == [t |-> "TypeError", s |-> <<>>]

\* Mutant of NoArticlesFound: the filtered query is echoed.
NoArticlesFoundFiltered(q) ==
    PyStr(Concat(<<S(<<"No articles found for query: '">>), Format(q),
                   S(<<" AND \"loattrfree full text\"[sb]">>), S(<<"'">>)>>))

\* f"No articles found for query: '{query}'"
NoArticlesFound(q) ==
    PyStr(Concat(<<S(<<"No articles found for query: '">>), Format(q), S(<<"'">>)>>))

\* ", ".join(article['authors'][:3]), with " et al." after more than three
authors_str(article) ==
    Cat(JoinWith(S(<<", ">>), SubSeq(article.authors, 1,
                                      IF Len(article.authors) > 3 THEN 3
                                      ELSE Len(article.authors))),
        IF Len(article.authors) > 3 THEN S(<<" et al.">>) ELSE <<>>)

citation_info(article) ==
    IF GetCount(article) > 0
    THEN Concat(<<S(<<" [Citations in result set: ">>), Dec(article.referenced_by_count),
                  S(<<"]">>)>>)
    ELSE <<>>

\* abstract[:300] + "..." when len(abstract) > 300
TruncatedAbstract(abstract) ==
    IF StrLen(abstract) > 300 THEN Cat(Take(abstract, 300), S(<<".", ".", ".">>)) ELSE abstract

HeaderLines(arts, q) ==
    << Concat(<<S(<<"PubMed Search Results for: '">>), Format(q), S(<<"'">>)>>),
       Concat(<<S(<<"Found ">>), Dec(Len(arts)), S(<<" relevant articles:">>)>>),
       <<Run("=", 50)>> >>

ArticleLines(i, article, info) ==
    << Concat(<<S(<<"\n">>), Dec(i), S(<<". ">>), Format(article.title)>>),
       Cat(S(<<"   Authors: ">>), authors_str(article)),
       Concat(<<S(<<"   Journal: ">>), Format(article.journal), S(<<" (">>),
                Format(article.publication_year), S(<<")">>), info>>),
       Cat(S(<<"   PMID: ">>), Format(article.pmid)),
       Cat(S(<<"   URL: ">>), article.pubmed_url) >>
    \o (IF Truthy(article.doi)
        THEN <<Cat(S(<<"   DOI: https://doi.org/">>), Format(article.doi))>>
        ELSE <<>>)
    \o << Cat(S(<<"   Abstract: ">>), TruncatedAbstract(article.abstract.s)),
          <<Run("-", 40)>> >>

RECURSIVE ResultLines(_, _, _)
ResultLines(arts, i, withInfo) ==
    IF i > Len(arts) THEN <<>>
    ELSE ArticleLines(i, arts[i], IF withInfo THEN citation_info(arts[i]) ELSE <<>>)
         \o ResultLines(arts, i + 1, withInfo)

\* format_search_results of search_pubmed_simple.py: no citation_info.
format_search_results_simple(arts, q) ==
    IF arts = <<>> THEN NoArticlesFound(q)
    ELSE IF \E i \in DOMAIN arts : ~IsStr(arts[i].abstract) THEN TypeError
    ELSE PyStr(JoinWith(S(<<"\n">>), HeaderLines(arts, q) \o ResultLines(arts, 1, FALSE)))

\* format_search_results of search_pubmed_bedrock.py
format_search_results(arts, q) ==
    IF arts = <<>> THEN NoArticlesFound(q)
    ELSE IF \E i \in DOMAIN arts : ~IsStr(arts[i].abstract) THEN TypeError
    ELSE PyStr(JoinWith(S(<<"\n">>), HeaderLines(arts, q) \o ResultLines(arts, 1, TRUE)))

(***************************************************************************)
(* Inputs of the searches.                                                 *)
(***************************************************************************)
MaxIds == 3       \* identifiers the id-search answers with, at most
MaxEntries == 3   \* PubmedArticle entries in a detail-fetch document, at most

Str1(c) == PyStr(S(<<c>>))
Spaces == PyStr(<<Run(" ", 2)>>)
EmptyStr == PyStr(<<>>)
Q == Str1("q")

\* search_pubmed(query, max_results, max_records, rerank)
SearchArgs(q, mr, mrec, rr) ==
    [query |-> q, max_results |-> mr, max_records |-> mrec, rerank |-> rr]

QueryArgs == {PyNone, EmptyStr, Spaces, Q, PyNum(5)}
MaxResultsArgs ==
    {PyNum(100), PyNum(1), PyNum(0), PyNum(1000), PyNum(1001), Str1("5"), PyNone}
MaxRecordsArgs ==
    {PyNone, PyNum(1), PyNum(2), PyNum(0), PyNum(0 - 1), PyNum(100), PyNum(101), Str1("2")}
RerankArgs == {Lit("referenced_by"), Lit("date"), PyNone}

DefaultArgs == SearchArgs(Q, PyNum(100), PyNone, Lit("referenced_by"))

SearchPubmedArgs ==
    {SearchArgs(q, PyNum(100), PyNone, Lit("referenced_by")) : q \in QueryArgs}
    \cup {SearchArgs(Q, mr, mrec, Lit("referenced_by")) :
              mr \in MaxResultsArgs, mrec \in MaxRecordsArgs}
    \cup {SearchArgs(Q, PyNum(100), PyNone, rr) : rr \in RerankArgs}

\* The event of lambda_handler: whether it has the keys actionGroup, apiPath
\* and httpMethod, and its parameters, a list of name and value.
Param(name, value) == [name |-> name, value |-> value]
Event(complete, parameters) == [complete |-> complete, parameters |-> parameters]

QueryValues == {EmptyStr, Spaces, Q, PyNone}
MaxResultsValues ==
    {EmptyStr, PyStr(S(<<"5", "0">>)), PyStr(S(<<"5", "0", "0", "0">>)), Str1("0"),
     PyStr(S(<<"a", "b", "c">>)), PyStr(S(<<"-", "1">>)), PyStr(S(<<" ", "7", "\n">>))}
MaxRecordsValues ==
    {EmptyStr, Str1("1"), Str1("2"), Str1("0"), PyStr(S(<<"-", "1">>)),
     PyStr(S(<<"1", "0", "1">>)), Str1("x")}
RerankValues == {EmptyStr, Lit("date"), Lit("referenced_by")}

DefaultEvent == Event(TRUE, <<Param("query", Q)>>)

Events ==
    {Event(FALSE, <<Param("query", Q)>>), Event(TRUE, <<>>), DefaultEvent,
     Event(TRUE, <<Param("query", Q), Param("format", Str1("x")),
                   Param("query", EmptyStr)>>)}
    \cup {Event(TRUE, <<Param("query", v)>>) : v \in QueryValues}
    \cup {Event(TRUE, <<Param("max_results", mr), Param("query", Q),
                        Param("max_records", mrec)>>) :
              mr \in MaxResultsValues, mrec \in MaxRecordsValues}
    \cup {Event(TRUE, <<Param("query", Q), Param("rerank", v)>>) : v \in RerankValues}
    \cup {Event(TRUE, <<Param("max_results", PyStr(S(<<"a", "b", "c">>)))>>),
          Event(TRUE, <<Param("query", EmptyStr), Param("max_records", Str1("x"))>>)}

\* What the id-search answers with under esearchresult.idlist.
IdLists == {[i \in 1..n |-> Dec(i)] : n \in 0..MaxIds}

\* PubmedArticle entries: X is cited by Y, by Z and by N, Y by Z; Z and U
\* have no PMID, and Z is cited by U; U has no ArticleTitle; N has an empty
\* ArticleTitle and no AbstractText; V has an empty AbstractText.
Chars(t) == PyStr(S(t))
Smith == AuthorElem(Lit("Smith"), Lit("Ann"))

EntryX ==
    PubmedArticle(Str1("1"), Chars(<<"A", "b">>), Chars(<<"x", " ", "y">>), <<Smith>>,
                  Lit("Nature"), Lit("2020"), Lit("10.1/x"))
EntryY ==
    PubmedArticle(Str1("2"), Chars(<<"C", "d">>), Chars(<<"s", "e", "e", " ", "A", "B", ".">>),
                  <<Smith, Smith, AuthorElem(Lit("Doe"), Absent), Smith, Smith>>,
                  Absent, Absent, Absent)
EntryZ ==
    PubmedArticle(Absent, Chars(<<"E", "f">>),
                  Chars(<<"a", "b", " ", "a", "n", "d", " ", "c", "d">>),
                  <<AuthorElem(PyNone, Lit("Ann"))>>, PyNone, PyNone, PyNone)
EntryU ==
    PubmedArticle(Absent, Absent, Chars(<<"E", "F">>), <<Smith, Smith, Smith>>,
                  Lit("Cell"), Lit("2021"), Absent)
EntryN ==
    PubmedArticle(Str1("5"), PyNone, Absent, <<>>, Lit("Cell"), Lit("2021"), Absent)
EntryV ==
    PubmedArticle(Str1("6"), Chars(<<"I", "j">>), PyNone, <<>>, Lit("Cell"), Lit("2021"),
                  Absent)

Entries == {EntryX, EntryY, EntryZ, EntryU, EntryN, EntryV}

Payloads ==
    {Payload(FALSE, <<>>)} \cup {Payload(TRUE, es) : es \in SeqsUpTo(Entries, MaxEntries)}

SmallPayload == Payload(TRUE, <<EntryY, EntryX>>)

\* The documents explored: every document for the default event when the
\* id-search answered with MaxIds identifiers, one document otherwise.
PayloadsFor(in, ids) ==
    IF in = DefaultEvent /\ Len(ids) = MaxIds THEN Payloads
    ELSE IF in = DefaultArgs THEN {SmallPayload, EntityPayload(<<EntryX>>)}
    ELSE {SmallPayload}

InitSearch ==
    /\ fn = "search"
    /\ arg = PyNone
    /\ ret = "pending"
    /\ ReadIdle
    /\ \/ entry = "search_pubmed" /\ inputs \in SearchPubmedArgs
       \/ entry = "lambda_handler" /\ inputs \in Events
    /\ idlist = <<>>
    /\ payload = Payload(TRUE, <<>>)
    /\ spc = "start"
    /\ query = PyNone
    /\ max_results = PyNone
    /\ max_records = PyNone
    /\ rerank = PyNone
    /\ requests = <<>>
    /\ pmids = <<>>
    /\ articles = <<>>
    /\ ranking = "not_run"
    /\ result = PyNone
    /\ failure = NoFailure
    /\ api_response = NoApiResponse
    /\ SupIdle

(***************************************************************************)
(* search_pubmed, lambda_handler and perform_pubmed_search, step by step.  *)
(***************************************************************************)
\* An HTTP request: httpx.post(url, data=..., timeout=...) and how it ended.
Request(url, term, retmax, id, timeout, outcome) ==
    [url |-> url, term |-> term, retmax |-> retmax, id |-> id, timeout |-> timeout,
     outcome |-> outcome]

search_url == "https://eutils.ncbi.nlm.nih.gov/entrez/eutils/esearch.fcgi"
fetch_url == "https://eutils.ncbi.nlm.nih.gov/entrez/eutils/efetch.fcgi"

\* f"{query} AND \"loattrfree full text\"[sb]"
filtered_query(q) == Cat(Format(q), S(<<" AND \"loattrfree full text\"[sb]">>))

\* The search function returns value, or is left by the exception e; the
\* handler of lambda_handler then builds its response.
SearchReturns(value) ==
    /\ result' = value
    /\ failure' = failure
    /\ spc' = IF entry = "lambda_handler" THEN "respond" ELSE "done"

\* Mutant of SearchRaises: the exception is swallowed and the search
\* returns.
SearchRaisesSwallowed(e) ==
    /\ failure' = failure
    /\ result' = PyStr(e.msg)
    /\ spc' = IF entry = "lambda_handler" THEN "respond" ELSE "done"

SearchRaises(e) ==
    /\ failure' = e
    /\ result' = result
    /\ spc' = IF entry = "lambda_handler" THEN "respond" ELSE "done"

\* The handler "except Exception as e" of search_pubmed around its body.
PubMedSearchFailed(e) == Error("Exception", Cat(S(<<"PubMed search failed: ">>), e))

\* search_pubmed: the parameter validation.
SearchPubmedStart ==
    /\ entry = "search_pubmed"
    /\ spc = "start"
    /\ IF ~Bool(inputs.query) \/ ~IsStr(inputs.query) \/ StripStr(inputs.query.s) = <<>>
       THEN /\ failure' = Error("ValueError",
                                S(<<"Query parameter is required and must be a non-empty string">>))
            /\ spc' = "done"
            /\ UNCHANGED <<query, max_results, max_records, rerank>>
       ELSE /\ query' = inputs.query
            /\ max_results' =
                 IF ~IsInt(inputs.max_results) \/ inputs.max_results.n < 1
                    \/ inputs.max_results.n > 1000
                 THEN PyNum(100)
                 ELSE inputs.max_results
            /\ max_records' =
                 IF ~IsNone(inputs.max_records)
                    /\ (~IsInt(inputs.max_records) \/ inputs.max_records.n < 1
                        \/ inputs.max_records.n > 100)
                 THEN PyNone
                 ELSE inputs.max_records
            /\ rerank' = IF inputs.rerank # Lit("referenced_by") THEN Lit("referenced_by")
                         ELSE inputs.rerank
            /\ spc' = "esearch"
            /\ UNCHANGED failure
    /\ UNCHANGED <<entry, inputs, idlist, payload, requests, pmids, articles, ranking,
                   result, api_response>>
    /\ UNCHANGED <<pureVars, readVars>>
    /\ UNCHANGED supVars

\* lambda_handler: the loop over the parameters.  locals holds query,
\* max_results, max_records and rerank, and whether int() raised.
Locals(q, mr, mrec, rr, raises) ==
    [query |-> q, max_results |-> mr, max_records |-> mrec, rerank |-> rr, raises |-> raises]

RECURSIVE ParseParameters(_, _)
ParseParameters(parameters, locals) ==
    IF parameters = <<>> \/ locals.raises THEN locals
    ELSE LET param == Head(parameters)
             number == IF Truthy(param.value) THEN int(param.value) ELSE ValueError
         IN  ParseParameters(Tail(parameters),
               CASE param.name = "query" -> [locals EXCEPT !.query = param.value]
                 [] param.name = "max_results" ->
                      IF ~Truthy(param.value) THEN [locals EXCEPT !.max_results = PyNum(100)]
                      ELSE IF number = ValueError THEN [locals EXCEPT !.raises = TRUE]
                      ELSE [locals EXCEPT !.max_results = number]
                 [] param.name = "max_records" ->
                      IF ~Truthy(param.value) THEN [locals EXCEPT !.max_records = PyNone]
                      ELSE IF number = ValueError THEN [locals EXCEPT !.raises = TRUE]
                      ELSE [locals EXCEPT !.max_records = number]
                 [] param.name = "rerank" ->
                      [locals EXCEPT !.rerank = IF Truthy(param.value) THEN param.value
                                                ELSE Lit("referenced_by")]
                 [] OTHER -> locals)

\* lambda_handler up to the call of perform_pubmed_search.
LambdaHandlerStart ==
    /\ entry = "lambda_handler"
    /\ spc = "start"
    /\ LET locals == ParseParameters(inputs.parameters,
                                     Locals(PyNone, PyNum(100), PyNone, Lit("referenced_by"),
                                            FALSE))
       IN  IF ~inputs.complete
           THEN /\ api_response' = ApiResponse(500, Lit("Unexpected error: 'actionGroup'"))
                /\ spc' = "done"
                /\ UNCHANGED <<query, max_results, max_records, rerank>>
           ELSE IF locals.raises
           THEN /\ api_response' =
                     ApiResponse(500, PyStr(S(<<"Unexpected error: ", "<ValueError>">>)))
                /\ spc' = "done"
                /\ UNCHANGED <<query, max_results, max_records, rerank>>
           ELSE /\ query' = locals.query
                /\ max_results' = locals.max_results
                /\ max_records' = locals.max_records
                /\ rerank' = locals.rerank
                /\ IF ~Truthy(locals.query)
                   THEN /\ api_response' =
                             ApiResponse(400, Lit("Error: Query parameter is required"))
                        /\ spc' = "done"
                   ELSE /\ spc' = "esearch"
                        /\ UNCHANGED api_response
    /\ UNCHANGED <<entry, inputs, idlist, payload, requests, pmids, articles, ranking,
                   result, failure>>
    /\ UNCHANGED <<pureVars, readVars>>
    /\ UNCHANGED supVars

\* pmids[:max_records] when max_records and len(pmids) > max_records; a
\* negative bound of a slice counts from the end.
LimitResults(ids, mrec) ==
    IF Bool(mrec) /\ Len(ids) > mrec.n
    THEN SubSeq(ids, 1, IF mrec.n >= 0 THEN mrec.n
                        ELSE IF Len(ids) + mrec.n > 0 THEN Len(ids) + mrec.n ELSE 0)
    ELSE ids

\* The id-search request.  "ok": a 2xx answer whose JSON holds idlist;
\* "network_error", "timeout": httpx raises; "http_error": raise_for_status
\* raises; "invalid_json": .json() raises; "not_an_object": the JSON is not
\* an object and .get raises AttributeError, in perform_pubmed_search
\* outside its try.
SearchOutcomes ==
    {"ok", "network_error", "timeout", "http_error", "invalid_json", "not_an_object"}

ESearch ==
    /\ spc = "esearch"
    /\ \E outcome \in SearchOutcomes :
         /\ requests' = Append(requests,
                               Request(search_url, filtered_query(query), max_results, PyNone,
                                       30, outcome))
         /\ CASE outcome = "ok" ->
                   \E ids \in IdLists :
                     /\ idlist' = ids
                     /\ IF ids = <<>>
                        THEN /\ SearchReturns(NoArticlesFound(query))
                             /\ UNCHANGED pmids
                        ELSE /\ pmids' = LimitResults(ids, max_records)
                             /\ spc' = "efetch"
                             /\ UNCHANGED <<result, failure>>
              [] outcome = "not_an_object" /\ entry = "lambda_handler" ->
                   /\ SearchRaises(Error("AttributeError", S(<<"<AttributeError>">>)))
                   /\ UNCHANGED <<idlist, pmids>>
              [] OTHER ->
                   /\ SearchRaises(PubMedSearchFailed(S(<<"<", outcome, ">">>)))
                   /\ UNCHANGED <<idlist, pmids>>
    /\ UNCHANGED <<entry, inputs, payload, query, max_results, max_records, rerank,
                   articles, ranking, api_response>>
    /\ UNCHANGED <<pureVars, readVars>>
    /\ UNCHANGED supVars

\* The detail-fetch request and parse_pubmed_xml.
FetchOutcomes == {"ok", "network_error", "timeout", "http_error"}

EFetch ==
    /\ spc = "efetch"
    /\ \E outcome \in FetchOutcomes :
         /\ requests' = Append(requests,
                               Request(fetch_url, PyNone, PyNone,
                                       PyStr(JoinWith(S(<<",">>), pmids)), 60, outcome))
         /\ CASE outcome = "ok" ->
                   \E articles_xml \in PayloadsFor(inputs, idlist) :
                     LET parsed == IF entry = "lambda_handler"
                                   THEN parse_pubmed_xml_call(articles_xml)
                                   ELSE parse_pubmed_xml_simple_call(articles_xml)
                     IN  /\ payload' = articles_xml
                         /\ IF parsed.raises = NoFailure
                            THEN /\ articles' = parsed.records
                                 /\ spc' = IF entry = "lambda_handler" THEN "rerank"
                                           ELSE "format"
                                 /\ UNCHANGED <<result, failure>>
                            ELSE /\ SearchRaises(
                                        IF entry = "lambda_handler"
                                        THEN Error("Exception",
                                                   Cat(S(<<"Failed to parse article data: ">>),
                                                       parsed.raises.msg))
                                        ELSE PubMedSearchFailed(parsed.raises.msg))
                                 /\ UNCHANGED articles
              [] OTHER ->
                   /\ UNCHANGED payload
                   /\ SearchRaises(IF entry = "lambda_handler"
                                   THEN Error("Exception",
                                              S(<<"Failed to fetch article details: ", "<",
                                                  outcome, ">">>))
                                   ELSE PubMedSearchFailed(S(<<"<", outcome, ">">>)))
                   /\ UNCHANGED articles
    /\ UNCHANGED <<entry, inputs, idlist, query, max_results, max_records, rerank,
                   pmids, ranking, api_response>>
    /\ UNCHANGED <<pureVars, readVars>>
    /\ UNCHANGED supVars

\* perform_pubmed_search: the reranking step and its handler.
Rerank ==
    /\ spc = "rerank"
    /\ IF rerank = Lit("referenced_by") /\ Len(articles) > 1
       THEN IF calculate_citation_counts_raises(articles)
            THEN /\ articles' = calculate_citation_counts(articles)
                 /\ ranking' = "failed"
            ELSE /\ articles' = SortByCount(calculate_citation_counts(articles))
                 /\ ranking' = "completed"
       ELSE UNCHANGED <<articles, ranking>>
    /\ spc' = "format"
    /\ UNCHANGED <<entry, inputs, idlist, payload, query, max_results, max_records, rerank,
                   requests, pmids, result, failure, api_response>>
    /\ UNCHANGED <<pureVars, readVars>>
    /\ UNCHANGED supVars

\* format_search_results and the return.
NoLen == S(<<"object of type 'NoneType' has no len()">>)

FormatResults ==
    /\ spc = "format"
    /\ LET formatted_results == IF entry = "lambda_handler"
                                THEN format_search_results(articles, query)
                                ELSE format_search_results_simple(articles, query)
       IN  IF formatted_results = TypeError
           THEN SearchRaises(IF entry = "lambda_handler" THEN Error("TypeError", NoLen)
                             ELSE PubMedSearchFailed(NoLen))
           ELSE SearchReturns(formatted_results)
    /\ UNCHANGED <<entry, inputs, idlist, payload, query, max_results, max_records, rerank,
                   requests, pmids, articles, ranking, api_response>>
    /\ UNCHANGED <<pureVars, readVars>>
    /\ UNCHANGED supVars

\* lambda_handler after perform_pubmed_search: 200 with the results, or the
\* handler "except Exception as search_error".
Respond ==
    /\ spc = "respond"
    /\ api_response' =
         IF failure = NoFailure THEN ApiResponse(200, result)
         ELSE ApiResponse(500, PyStr(Cat(S(<<"Error during PubMed search: ">>), failure.msg)))
    /\ spc' = "done"
    /\ UNCHANGED <<entry, inputs, idlist, payload, query, max_results, max_records, rerank,
                   requests, pmids, articles, ranking, result, failure>>
    /\ UNCHANGED <<pureVars, readVars>>
    /\ UNCHANGED supVars

NextSearch ==
    SearchPubmedStart \/ LambdaHandlerStart \/ ESearch \/ EFetch \/ Rerank \/ FormatResults
    \/ Respond

SpecSearch == InitSearch /\ [][NextSearch]_vars

(***************************************************************************)
(* Claims about the searches.                                              *)
(***************************************************************************)
\* The query the caller gave: the argument of search_pubmed, the value of
\* the (last) query parameter of the event.
IsQueryParam(param) == param.name = "query"
NoLocals == Locals(PyNone, PyNum(100), PyNone, Lit("referenced_by"), FALSE)

GivenQuery ==
    IF entry = "search_pubmed" THEN inputs.query
    ELSE ParseParameters(SelectSeq(inputs.parameters, IsQueryParam), NoLocals).query

\* The event has its keys and its numbers are numerals.
EventParses ==
    entry = "lambda_handler" =>
        inputs.complete /\ ~ParseParameters(inputs.parameters, NoLocals).raises

SearchOver == spc \in {"respond", "done"}
RequestsTo(url) == {i \in DOMAIN requests : requests[i].url = url}

(***************************************************************************)
(* C12: a search whose query is empty or only whitespace is rejected with  *)
(* an invalid-argument error (ValueError from search_pubmed, status 400    *)
(* from lambda_handler) and no HTTP request is issued.                     *)
(***************************************************************************)
C12_BlankQueryRejected ==
    (spc # "start" /\ EventParses /\ IsStr(GivenQuery) /\ StripStr(GivenQuery.s) = <<>>) =>
        /\ requests = <<>>
        /\ entry = "search_pubmed" => failure.type = "ValueError"
        /\ entry = "lambda_handler" => api_response.httpStatusCode = 400

(***************************************************************************)
(* C13: the result cap sent in the id-search request is an integer in      *)
(* 1..1000; max_records is an integer in 1..100 or unset; and a search     *)
(* with a query never fails for an out-of-range or wrongly typed           *)
(* max_results or max_records: it goes on to the id-search.                *)
(***************************************************************************)
C13_CapsClamped ==
    /\ \A i \in RequestsTo(search_url) :
         /\ IsInt(requests[i].retmax)
         /\ requests[i].retmax.n \in 1..1000
    /\ requests # <<>> =>
         \/ IsNone(max_records)
         \/ IsInt(max_records) /\ max_records.n \in 1..100
    /\ (spc = "done" /\ (entry = "lambda_handler" => inputs.complete)
        /\ IsStr(GivenQuery) /\ StripStr(GivenQuery.s) # <<>>) =>
         requests # <<>>

(***************************************************************************)
(* C14: when the id-search answers with an empty identifier list, the      *)
(* search returns the line "No articles found for query: '<query>'" with   *)
(* the query as the caller gave it, raises nothing, sends no detail-fetch  *)
(* request and does not run the reranker.                                  *)
(***************************************************************************)
EmptyIdList == requests # <<>> /\ requests[1].outcome = "ok" /\ idlist = <<>>

C14_EmptyIdListIsNoArticles ==
    EmptyIdList =>
        /\ SearchOver
        /\ failure = NoFailure
        /\ result = PyStr(Concat(<<S(<<"No articles found for query: '">>), GivenQuery.s,
                                   S(<<"'">>)>>))
        /\ Len(requests) = 1
        /\ articles = <<>>
        /\ ranking = "not_run"
        /\ (entry = "lambda_handler" /\ spc = "done") => api_response = ApiResponse(200, result)

\* lambda_handler answered 200 with the line.
C14_Witness ==
    /\ EmptyIdList
    /\ entry = "lambda_handler"
    /\ spc = "done"
    /\ api_response.httpStatusCode = 200

(***************************************************************************)
(* C15: the identifiers sent in the detail-fetch request are the first     *)
(* min(max_records, n) of the n identifiers the id-search answered with,   *)
(* in their order, when max_records is set, and all n when it is unset,    *)
(* in one request.                                                         *)
(***************************************************************************)
Min(a, b) == IF a < b THEN a ELSE b

C15_DetailFetchIds ==
    /\ Cardinality(RequestsTo(fetch_url)) <= 1
    /\ \A i \in RequestsTo(fetch_url) :
         requests[i].id =
           PyStr(JoinWith(S(<<",">>),
                          SubSeq(idlist, 1, IF IsNone(max_records) THEN Len(idlist)
                                            ELSE Min(max_records.n, Len(idlist)))))

(***************************************************************************)
(* C16: a search issues its two requests in sequence and each at most      *)
(* once: the detail-fetch only after the id-search succeeded with a        *)
(* non-empty list; a network, timeout or non-2xx failure of either request *)
(* ends the call with a raised failure, with no retry and no later         *)
(* request.                                                                *)
(***************************************************************************)
TransportFailures == {"network_error", "timeout", "http_error"}

C16_RequestsInSequence ==
    /\ Len(requests) <= 2
    /\ requests # <<>> => requests[1].url = search_url
    /\ Len(requests) = 2 =>
         /\ requests[2].url = fetch_url
         /\ requests[1].outcome = "ok"
         /\ idlist # <<>>
    /\ \A i \in DOMAIN requests :
         requests[i].outcome \in TransportFailures =>
             /\ i = Len(requests)
             /\ SearchOver
             /\ failure # NoFailure
             /\ result = PyNone

\* The detail-fetch timed out and the search was left by an exception.
C16_Witness ==
    /\ Len(requests) = 2
    /\ requests[2].outcome = "timeout"
    /\ spc = "done"
    /\ failure.type = "Exception"

\* The records in their parse order, as the parser gave them.
Parsed ==
    IF entry = "lambda_handler" THEN parse_pubmed_xml(payload.entries)
    ELSE parse_pubmed_xml_simple(payload.entries)

\* The rerank the caller asked for.
GivenRerank == IF entry = "search_pubmed" THEN inputs.rerank ELSE rerank

\* a's title occurs in b's abstract, whatever the case of the letters.
TitleIn(a, b) ==
    /\ IsStr(a.title)
    /\ IsStr(b.abstract)
    /\ Contains(Lower(b.abstract.s), Expand(Lower(a.title.s)))

\* The in-set referenced-by score of the record at position i: the records
\* at the other positions whose abstract holds its title.
Score(arts, i) == Cardinality({j \in DOMAIN arts \ {i} : TitleIn(arts[i], arts[j])})

WithoutCount(a) == [f \in DOMAIN a \ {"referenced_by_count"} |-> a[f]]
Orderings(n) == {p \in [1..n -> 1..n] : \A i, j \in 1..n : p[i] = p[j] => i = j}

\* The records rendered with no citation-count suffix.
RenderedWithoutCounts(arts, q) ==
    PyStr(JoinWith(S(<<"\n">>), HeaderLines(arts, q) \o ResultLines(arts, 1, FALSE)))

(***************************************************************************)
(* C17: a search run with rerank = "referenced_by" that parsed more than   *)
(* one record returns the records in non-increasing order of their in-set  *)
(* referenced-by score, records of equal score in their parse order; this  *)
(* for search_pubmed and for lambda_handler alike.                         *)
(***************************************************************************)
C17_RerankedOutputSorted ==
    (IsStr(result) /\ GivenRerank = Lit("referenced_by") /\ Len(Parsed) > 1) =>
        /\ Len(articles) = Len(Parsed)
        /\ \E p \in Orderings(Len(Parsed)) :
             /\ \A k \in DOMAIN articles :
                  WithoutCount(articles[k]) = WithoutCount(Parsed[p[k]])
             /\ \A k \in 1..(Len(Parsed) - 1) :
                  /\ Score(Parsed, p[k]) >= Score(Parsed, p[k + 1])
                  /\ Score(Parsed, p[k]) = Score(Parsed, p[k + 1]) => p[k] < p[k + 1]

(***************************************************************************)
(* C18: after calculate_citation_counts the referenced_by_count of each    *)
(* record equals the number of records at the other positions of the list  *)
(* (those carrying the same identifier included) whose abstract holds its  *)
(* title as a case-insensitive substring.                                  *)
(***************************************************************************)
C18_CountIsOtherRecordsCiting ==
    ranking = "completed" =>
        \A i \in DOMAIN articles : articles[i].referenced_by_count = Score(articles, i)

(***************************************************************************)
(* C19: when the reranking step throws, perform_pubmed_search does not     *)
(* fail: it returns the formatted result, the records in their parse       *)
(* order.                                                                  *)
(***************************************************************************)
C19_FailedRerankKeepsOrder ==
    (ranking = "failed" /\ SearchOver) =>
        /\ failure = NoFailure
        /\ IsStr(result)
        /\ Len(articles) = Len(Parsed)
        /\ \A k \in DOMAIN articles : WithoutCount(articles[k]) = WithoutCount(Parsed[k])

(***************************************************************************)
(* C20: a referenced_by_count is non-zero only if the reranker ran to      *)
(* completion: when reranking was skipped or failed part-way, every        *)
(* record's referenced_by_count is 0 and no record is rendered with a      *)
(* citation-count suffix.                                                  *)
(***************************************************************************)
C20_CountZeroUnlessCompleted ==
    ranking # "completed" =>
        /\ \A i \in DOMAIN articles : GetCount(articles[i]) = 0
        /\ (IsStr(result) /\ articles # <<>>) =>
             result = RenderedWithoutCounts(articles, query)

(***************************************************************************)
(* Further claims about read_pubmed.                                       *)
(***************************************************************************)
\* The fetched document lacks the end tag of its root.
Unclosed(xml) == xml # <<>> /\ xml[Len(xml)].c # "</article>"

\* The fetched document has no article-title, abstract or body element.
NoSections(xml) ==
    \A i \in DOMAIN xml : xml[i].c \notin {"<article-title>", "<abstract>", "<body>"}

ErrorParsingPrefix ==
    S(<<"E", "r", "r", "o", "r", " ", "p", "a", "r", "s", "i", "n", "g", " ", "X", "M", "L", " ",
        "c", "o", "n", "t", "e", "n", "t", ":">>)

(***************************************************************************)
(* C24: for a fetched document with a permissive marker that is malformed  *)
(* markup, or that has no title, abstract or body section, the text        *)
(* extraction does not raise and read_pubmed returns status success, never *)
(* error: the content is the text "Error parsing XML content: ..." for the *)
(* malformed document and "No readable text content found in article" for  *)
(* the one without sections.                                               *)
(***************************************************************************)
C24_ExtractionFailureIsContent ==
    (Fetched /\ Done /\ HasPermissiveMarker(raw) /\ (Unclosed(raw) \/ NoSections(raw))) =>
        /\ Returned
        /\ response.status = Lit("success")
        /\ IsStr(response.content)
        /\ response.text = response.content
        /\ IF Unclosed(raw)
           THEN Take(response.content.s, StrLen(ErrorParsingPrefix)) = ErrorParsingPrefix
           ELSE response.content = PyStr(NoReadableText)

\* A permissively licensed document without its root end tag was returned
\* as a success carrying the parse error text.
C24_Witness ==
    /\ Returned
    /\ Fetched
    /\ HasPermissiveMarker(raw)
    /\ Unclosed(raw)
    /\ response.status = Lit("success")
    /\ response.content = PyStr(ParseErrorText)

(***************************************************************************)
(* C25: in every dictionary read_pubmed returns, the source key is present *)
(* exactly when the caller gave a source other than None, and holds the    *)
(* caller's value, whatever the status; the text key is present exactly    *)
(* when content is not None, which is so only for status success, and      *)
(* equals content.                                                         *)
(***************************************************************************)
C25_SourceAndTextKeys ==
    Returned =>
        /\ response.source = Absent <=> IsNone(source)
        /\ ~IsNone(source) => response.source = source
        /\ response.text = Absent <=> IsNone(response.content)
        /\ ~IsNone(response.content) =>
               /\ response.text = response.content
               /\ response.status = Lit("success")

\* An error response for a source that failed validation carries it.
C25_Witness ==
    /\ Returned
    /\ response.status = Lit("error")
    /\ _validate_pmcid(pmcid)
    /\ ~IsNone(source)
    /\ ~_validate_source_url(source)
    /\ response.source = source
    /\ response.text = Absent

(***************************************************************************)
(* C28: the key of every object-store call, and the s3_path of every       *)
(* response that has one, is "oa_comm/xml/all/" then "PMC", digits and     *)
(* ".xml", without whitespace; an identifier that passes validation only   *)
(* once trimmed is not echoed untrimmed as pmcid.                          *)
(***************************************************************************)
\* "PMC" followed by one or more digits, for the characters t
IsPmcDigits(t) ==
    /\ Len(t) > 3
    /\ SubSeq(t, 1, 3) = <<"P", "M", "C">>
    /\ \A i \in 4..Len(t) : t[i] \in UnicodeDigit

\* key = "oa_comm/xml/all/" + "PMC" + digits + ".xml"
IsArticleKey(key) ==
    /\ IsStr(key)
    /\ Len(key.s) >= 3
    /\ key.s[1] = Run("oa_comm/xml/all/", 1)
    /\ key.s[Len(key.s)] = Run(".xml", 1)
    /\ IsPmcDigits(Expand(SubSeq(key.s, 2, Len(key.s) - 1)))

C28_KeyFromTrimmedIdentifier ==
    /\ \A i \in DOMAIN calls :
           calls[i].op \in {"head_object", "get_object"} => IsArticleKey(calls[i].key)
    /\ Returned =>
           /\ ~IsNone(response.s3_path) => IsArticleKey(response.s3_path)
           /\ (IsStr(response.pmcid) /\ _validate_pmcid(pmcid)) =>
                  IsPmcDigits(Expand(response.pmcid.s))

(***************************************************************************)
(* C29: a fetched document whose only license statement is a               *)
(* non-commercial variant ("CC BY-NC") is classified non_commercial:       *)
(* read_pubmed returns licensing_restriction and no text of the document,  *)
(* neither as content nor as text.                                         *)
(***************************************************************************)
NonCommercialStatements == {S(<<"C", "C", " ", "B", "Y", "-", "N", "C">>)}

\* The text of the document's license statement.
LicenseStatement(xml) ==
    IF \E i \in DOMAIN xml : xml[i].c = "<license>"
    THEN ElementText(xml, "license")
    ELSE <<>>

C29_NonCommercialIsWithheld ==
    (Fetched /\ Done /\ LicenseStatement(raw) \in NonCommercialStatements) =>
        /\ Returned
        /\ response.status = Lit("licensing_restriction")
        /\ response.license_type = Lit("non_commercial")
        /\ IsNone(response.content)
        /\ response.text = Absent

(***************************************************************************)
(* parse_pubmed_xml and format_search_results of both modules, applied to  *)
(* each document: the parser to the document, the formatter to the list    *)
(* the parser returned.  The call uses the search's variables payload,     *)
(* articles, query, result and failure.                                    *)
(***************************************************************************)
MaxListLen == 3   \* PubmedArticle entries in a document given to the parser, at most

Ann == AuthorElem(Lit("Smith"), Lit("Ann"))
Bo == AuthorElem(Lit("Lee"), Lit("Bo"))
Cy == AuthorElem(Lit("Roe"), Lit("Cy"))
Di == AuthorElem(Lit("Poe"), Lit("Di"))

\* L: an abstract of 300 characters and three authors; M: an abstract of
\* 301 characters (300 "a" and "b") and four authors.
EntryL ==
    PubmedArticle(Str1("7"), Chars(<<"K", "l">>), PyStr(<<Run("a", 300)>>),
                  <<Ann, Bo, Cy>>, Lit("Cell"), Lit("2021"), Absent)
EntryM ==
    PubmedArticle(Str1("8"), Chars(<<"M", "n">>), PyStr(<<Run("a", 300), Run("b", 1)>>),
                  <<Ann, Bo, Cy, Di>>, Lit("Cell"), Lit("2021"), Absent)

Modules == {Lit("search_pubmed_bedrock"), Lit("search_pubmed_simple")}

Documents ==
    {Payload(FALSE, <<>>)}
    \cup {Payload(TRUE, es) : es \in SeqsUpTo(Entries \cup {EntryL, EntryM}, MaxListLen)}
    \cup {EntityPayload(es) : es \in SeqsUpTo({EntryX, EntryM}, 2)}

InitRecords ==
    /\ fn = "parse_pubmed_xml"
    /\ arg \in Modules
    /\ ret = "pending"
    /\ ReadIdle
    /\ entry = "none"
    /\ inputs = PyNone
    /\ idlist = <<>>
    /\ payload \in Documents
    /\ spc = "idle"
    /\ query = Q
    /\ max_results = PyNone
    /\ max_records = PyNone
    /\ rerank = PyNone
    /\ requests = <<>>
    /\ pmids = <<>>
    /\ articles = <<>>
    /\ ranking = "not_run"
    /\ result = PyNone
    /\ failure = NoFailure
    /\ api_response = NoApiResponse
    /\ SupIdle

\* articles = parse_pubmed_xml(articles_xml)
ApplyParsePubmedXml ==
    /\ fn = "parse_pubmed_xml"
    /\ ret = "pending"
    /\ LET parsed == IF arg = Lit("search_pubmed_bedrock")
                     THEN parse_pubmed_xml_call(payload)
                     ELSE parse_pubmed_xml_simple_call(payload)
       IN  /\ articles' = parsed.records
           /\ failure' = parsed.raises
           /\ ret' = IF parsed.raises = NoFailure THEN "parsed" ELSE "raised"
    /\ UNCHANGED <<fn, arg, readVars>>
    /\ UNCHANGED <<entry, inputs, idlist, payload, spc, query, max_results, max_records,
                   rerank, requests, pmids, ranking, result, api_response>>
    /\ UNCHANGED supVars

\* formatted_results = format_search_results(articles, query)
ApplyFormatSearchResults ==
    /\ fn = "parse_pubmed_xml"
    /\ ret = "parsed"
    /\ LET formatted_results == IF arg = Lit("search_pubmed_bedrock")
                                THEN format_search_results(articles, query)
                                ELSE format_search_results_simple(articles, query)
       IN  IF formatted_results = TypeError
           THEN /\ failure' = Error("TypeError", NoLen)
                /\ ret' = "format_raised"
                /\ UNCHANGED result
           ELSE /\ result' = formatted_results
                /\ ret' = "formatted"
                /\ UNCHANGED failure
    /\ UNCHANGED <<fn, arg, readVars>>
    /\ UNCHANGED <<entry, inputs, idlist, payload, spc, query, max_results, max_records,
                   rerank, requests, pmids, articles, ranking, api_response>>
    /\ UNCHANGED supVars

NextRecords == ApplyParsePubmedXml \/ ApplyFormatSearchResults

SpecRecords == InitRecords /\ [][NextRecords]_vars

(***************************************************************************)
(* C21: parse_pubmed_xml on a well-formed document does not raise, returns *)
(* exactly one record for each entry (no entry of a parsed tree fails) and *)
(* keeps the document order; a document that is not well-formed, and only  *)
(* such a document, makes the call raise, with the one parse failure       *)
(* "Invalid XML response from PubMed".                                     *)
(***************************************************************************)
ParserReturned == fn = "parse_pubmed_xml" /\ ret \in {"parsed", "raised"}

C21_ParserFailsOnlyOnMalformedDocument ==
    ParserReturned =>
        IF payload.wellformed
        THEN /\ ret = "parsed"
             /\ failure = NoFailure
             /\ Len(articles) = Len(payload.entries)
             /\ \A i \in DOMAIN articles :
                    /\ payload.entries[i].PMID \notin {Absent, PyNone} =>
                           articles[i].pmid = payload.entries[i].PMID
                    /\ payload.entries[i].AbstractText \notin {Absent, PyNone} =>
                           articles[i].abstract = payload.entries[i].AbstractText
        ELSE /\ ret = "raised"
             /\ failure = Error("Exception", InvalidXml)
             /\ articles = <<>>

(***************************************************************************)
(* C22: every record parse_pubmed_xml produces has a string identifier,    *)
(* title, abstract, journal and publication year, the sentinel standing in *)
(* for a sub-field that is absent or has no text, and so the formatting    *)
(* that follows does not fail.                                             *)
(***************************************************************************)
Missing(elem) == elem \in {Absent, PyNone}

Sentinel(elem, default, value) ==
    /\ IsStr(value)
    /\ Missing(elem) => value = default

C22_RecordFieldsAreStrings ==
    /\ (fn = "parse_pubmed_xml" /\ ret # "pending") =>
           \A i \in DOMAIN articles :
               LET e == payload.entries[i]
                   a == articles[i]
               IN  /\ Sentinel(e.PMID, Lit("Unknown"), a.pmid)
                   /\ Sentinel(e.ArticleTitle, NoTitleAvailable, a.title)
                   /\ Sentinel(e.AbstractText, NoAbstractAvailable, a.abstract)
                   /\ Sentinel(e.Title, Lit("Unknown Journal"), a.journal)
                   /\ Sentinel(e.Year, Lit("Unknown"), a.publication_year)
    /\ fn = "parse_pubmed_xml" => ret # "format_raised"

(***************************************************************************)
(* C23: format_search_results renders every record of a non-empty list     *)
(* once and in list order; the abstract line of a record shows the first   *)
(* 300 characters and "..." for an abstract of more than 300 characters    *)
(* and the abstract itself otherwise; the authors line shows the first     *)
(* three authors at most, and " et al." after them exactly when the record *)
(* has more than three.                                                    *)
(***************************************************************************)
\* The lines of a text: its pieces between the line feeds, found in each
\* half of the text; the last line of one half continues in the other.
RECURSIVE SplitLines(_)
SplitLines(s) ==
    IF s = <<>> THEN << <<>> >>
    ELSE IF Len(s) = 1
         THEN (IF s[1].c = "\n" THEN [i \in 1..(s[1].n + 1) |-> <<>>] ELSE <<s>>)
    ELSE LET a == SplitLines(SubSeq(s, 1, Len(s) \div 2))
             b == SplitLines(SubSeq(s, (Len(s) \div 2) + 1, Len(s)))
         IN  SubSeq(a, 1, Len(a) - 1) \o <<a[Len(a)] \o b[1]>> \o Tail(b)

\* What follows the label on each line that starts with it, in order.
Labelled(lines, label) ==
    LET starts(l) == l # <<>> /\ l[1] = Run(label, 1)
        found == SelectSeq(lines, starts)
    IN  [i \in DOMAIN found |-> Tail(found[i])]

ShownAbstract(abstract) ==
    IF StrLen(abstract) <= 300 THEN abstract
    ELSE Cat(Take(abstract, 300), <<Run(".", 3)>>)

ShownAuthors(authors) ==
    CASE Len(authors) = 0 -> <<>>
      [] Len(authors) = 1 -> authors[1]
      [] Len(authors) = 2 -> Concat(<<authors[1], S(<<", ">>), authors[2]>>)
      [] Len(authors) = 3 ->
             Concat(<<authors[1], S(<<", ">>), authors[2], S(<<", ">>), authors[3]>>)
      [] OTHER ->
             Concat(<<authors[1], S(<<", ">>), authors[2], S(<<", ">>), authors[3],
                      S(<<" et al.">>)>>)

FormatterReturned == fn = "parse_pubmed_xml" /\ ret \in {"formatted", "format_raised"}

C23_EveryRecordRendered ==
    (FormatterReturned /\ articles # <<>>) =>
        /\ ret = "formatted"
        /\ IsStr(result)
        /\ LET lines == SplitLines(result.s)
               ids == Labelled(lines, "   PMID: ")
               abstracts == Labelled(lines, "   Abstract: ")
               authors == Labelled(lines, "   Authors: ")
           IN  /\ Len(ids) = Len(articles)
               /\ Len(abstracts) = Len(articles)
               /\ Len(authors) = Len(articles)
               /\ \A i \in DOMAIN articles :
                      /\ ids[i] = Format(articles[i].pmid)
                      /\ IsStr(articles[i].abstract)
                      /\ abstracts[i] = ShownAbstract(articles[i].abstract.s)
                      /\ authors[i] = ShownAuthors(articles[i].authors)

(***************************************************************************)
(* The simplified readers: read_pubmed of lambda/read_pubmed_simple.py and *)
(* read_pmc_article of action_groups/.../read_pubmed_bedrock.py, which are *)
(* the same function under two names, and the lambda_handler of the        *)
(* latter.  The call uses the variables pc, pmcid, source, calls, raw      *)
(* (xml_content), text (article_text) and sumResult of the reader, and     *)
(* entry, inputs, result, failure and api_response of the handlers.        *)
(***************************************************************************)
\* s[k:]
RECURSIVE Drop(_, _)
Drop(s, k) ==
    IF s = <<>> \/ k <= 0 THEN s
    ELSE IF Head(s).n > k THEN <<Run(Head(s).c, Head(s).n - k)>> \o Tail(s)
    ELSE Drop(Tail(s), k - Head(s).n)

\* The characters before run i of s.
Before(s, i) == StrLen(SubSeq(s, 1, i - 1))

\* The word w (the runs of a literal of two runs or more) stands in s with
\* its first run in run i of s.
WordAt(s, w, i) ==
    /\ i + Len(w) - 1 <= Len(s)
    /\ s[i].c = w[1].c /\ s[i].n >= w[1].n
    /\ \A k \in 2..(Len(w) - 1) : s[i + k - 1] = w[k]
    /\ s[i + Len(w) - 1].c = w[Len(w)].c /\ s[i + Len(w) - 1].n >= w[Len(w)].n

\* The offsets in s at which the word w starts.
Starts(s, w) ==
    {Before(s, i) + s[i].n - w[1].n : i \in {j \in DOMAIN s : WordAt(s, w, j)}}

\* The least offset at or after p at which one of the words starts; -1 if
\* none does.
FirstFrom(s, words, p) ==
    LET found == {o \in UNION {Starts(s, w) : w \in words} : o >= p}
    IN  IF found = {} THEN 0 - 1 ELSE CHOOSE o \in found : \A q \in found : o <= q

\* str.isdigit, for the characters t
IsDigit(t) == t # <<>> /\ \A i \in DOMAIN t : t[i] \in UnicodeDigit

\* pmcid.startswith('PMC') and pmcid[3:].isdigit()
HasPmcFormat(v) ==
    LET t == Expand(v.s)
    IN  /\ Len(t) >= 3
        /\ SubSeq(t, 1, 3) = <<"P", "M", "C">>
        /\ IsDigit(SubSeq(t, 4, Len(t)))

\* The section markers of extract_article_text, in lower case.
abstract_marker == S(<<"a", "b", "s", "t", "r", "a", "c", "t">>)
introduction_marker == S(<<"i", "n", "t", "r", "o", "d", "u", "c", "t", "i", "o", "n">>)
conclusion_marker == S(<<"c", "o", "n", "c", "l", "u", "s", "i", "o", "n">>)
abstract_end == {S(<<"i", "n", "t", "r", "o", "d", "u", "c", "t", "i", "o", "n">>), S(<<"b", "a", "c", "k", "g", "r", "o", "u", "n", "d">>), S(<<"m", "e", "t", "h", "o", "d", "s">>), S(<<"r", "e", "s", "u", "l", "t", "s">>),
                 S(<<"c", "o", "n", "c", "l", "u", "s", "i", "o", "n">>)}
introduction_end == {S(<<"m", "e", "t", "h", "o", "d", "s">>), S(<<"m", "a", "t", "e", "r", "i", "a", "l", "s">>), S(<<"r", "e", "s", "u", "l", "t", "s">>), S(<<"d", "i", "s", "c", "u", "s", "s", "i", "o", "n">>)}
conclusion_end == {S(<<"r", "e", "f", "e", "r", "e", "n", "c", "e", "s">>), S(<<"a", "c", "k", "n", "o", "w", "l", "e", "d", "g", "m", "e", "n", "t">>), S(<<"f", "u", "n", "d", "i", "n", "g">>)}

\* The markup tags of a document: re.sub(r'<[^>]+>', ' ', ...) turns each
\* into one space.
Tags == {"<article>", "</article>", "<abstract>", "</abstract>", "<sec>", "</sec>"}

\* re.sub(r'<[^>]+>', ' ', xml_content), re.sub(r'\s+', ' ', text) and
\* text.strip()
CleanText(xml_content) ==
    LET spaced == Norm([i \in DOMAIN xml_content |->
                           IF xml_content[i].c \in Tags \cup Whitespace
                           THEN Run(" ", 1) ELSE xml_content[i]])
    IN  StripStr([i \in DOMAIN spaced |->
                     IF spaced[i].c = " " THEN Run(" ", 1) ELSE spaced[i]])

\* What [:\s]* matches at the head of s is dropped.
RECURSIVE SkipColonsAndSpace(_)
SkipColonsAndSpace(s) ==
    IF s # <<>> /\ Head(s).c \in Whitespace \cup {":"} THEN SkipColonsAndSpace(Tail(s))
    ELSE s

\* re.search(marker + r'[:\s]*(.*?)(?:end1|end2|...)', text, IGNORECASE |
\* DOTALL): whether it matches, and group(1).  The search matches at the
\* first occurrence of the marker that an end word follows, which is the
\* first occurrence of the marker; the group ends where the first end word
\* after it starts.
Search(txt, marker, ends) ==
    LET lower == Lower(txt)
        at == FirstFrom(lower, {marker}, 0)
        rest == Drop(txt, at + StrLen(marker))
        skipped == SkipColonsAndSpace(rest)
        from == StrLen(txt) - StrLen(skipped)
        to == IF at < 0 THEN 0 - 1 ELSE FirstFrom(lower, ends, from)
    IN  [matches |-> to >= 0,
         group |-> IF to >= 0 THEN Take(skipped, to - from) ELSE <<>>]

\* f"Label: {match.group(1).strip()[:1000]}..."
Section(label, match) ==
    IF match.matches
    THEN <<Concat(<<label, Take(StripStr(match.group), 1000), S(<<".", ".", ".">>)>>)>>
    ELSE <<>>

\* Mutant of extract_article_text: the fallback returns the cleaned text
\* uncut.
extract_article_text_uncut(xml_content) ==
    LET cleaned == CleanText(xml_content)
        sections ==
            Section(S(<<"A", "b", "s", "t", "r", "a", "c", "t", ":", " ">>), Search(cleaned, abstract_marker, abstract_end))
            \o Section(S(<<"I", "n", "t", "r", "o", "d", "u", "c", "t", "i", "o", "n", ":", " ">>),
                       Search(cleaned, introduction_marker, introduction_end))
            \o Section(S(<<"C", "o", "n", "c", "l", "u", "s", "i", "o", "n", ":", " ">>), Search(cleaned, conclusion_marker, conclusion_end))
    IN  IF sections # <<>> THEN Join(sections) ELSE cleaned

\* extract_article_text.  Its handler "except Exception" is never
\* entered: re.sub and re.search do not raise on a str.
extract_article_text(xml_content) ==
    LET cleaned == CleanText(xml_content)
        sections ==
            Section(S(<<"A", "b", "s", "t", "r", "a", "c", "t", ":", " ">>), Search(cleaned, abstract_marker, abstract_end))
            \o Section(S(<<"I", "n", "t", "r", "o", "d", "u", "c", "t", "i", "o", "n", ":", " ">>),
                       Search(cleaned, introduction_marker, introduction_end))
            \o Section(S(<<"C", "o", "n", "c", "l", "u", "s", "i", "o", "n", ":", " ">>), Search(cleaned, conclusion_marker, conclusion_end))
    IN  IF sections # <<>> THEN Join(sections)
        ELSE Cat(Take(cleaned, 3000),
                 IF StrLen(cleaned) > 3000 THEN S(<<".", ".", ".">>) ELSE <<>>)

\* summarize_article.  "summary": invoke_model answers with a summary;
\* otherwise the handler "except Exception" builds the fallback from the
\* first 100 lines: the stripped lines that are not empty and hold a
\* keyword or more than 50 characters, 20 at most.
keywords == {S(<<"a", "b", "s", "t", "r", "a", "c", "t">>), S(<<"c", "o", "n", "c", "l", "u", "s", "i", "o", "n">>), S(<<"r", "e", "s", "u", "l", "t">>), S(<<"f", "i", "n", "d", "i", "n", "g">>), S(<<"m", "e", "t", "h", "o", "d">>)}

important_lines(article_text) ==
    LET lines == SplitLines(article_text)
        first == SubSeq(lines, 1, IF Len(lines) > 100 THEN 100 ELSE Len(lines))
        stripped == [i \in DOMAIN first |-> StripStr(first[i])]
        important(line) ==
            /\ line # <<>>
            /\ \/ \E keyword \in keywords : Starts(Lower(line), keyword) # {}
               \/ StrLen(line) > 50
        kept == SelectSeq(stripped, important)
    IN  SubSeq(kept, 1, IF Len(kept) > 20 THEN 20 ELSE Len(kept))

summarize_article(article_text, outcome, summary) ==
    IF outcome = "summary"
    THEN Concat(<<S(<<"AI Summary:", "\n">>), summary,
                  S(<<"\n", "\n", "[Note: This is an AI-generated summary of the full article]">>)>>)
    ELSE Concat(<<S(<<"Article Summary (first key sections):", "\n">>),
                  JoinWith(S(<<"\n">>), important_lines(article_text)),
                  S(<<"\n", "\n", "[Note: Full article content was truncated]">>)>>)

\* citation_url and result of read_pubmed / read_pmc_article
ArticleResult(id, src, article_text) ==
    LET citation_url == IF Truthy(src) THEN Format(src)
                        ELSE Concat(<<S(<<"https://www.ncbi.nlm.nih.gov/pmc/articles/">>),
                                      Format(id), S(<<"/">>)>>)
    IN  PyStr(Concat(<<S(<<"Article: ">>), Format(id), S(<<"\n", "Source: ">>), citation_url,
                       S(<<"\n", "\n", "Content:", "\n">>), article_text>>))

NoSuchKeyText(id) ==
    PyStr(Concat(<<S(<<"Article ">>), Format(id),
                   S(<<" not found in PMC Open Access Subset. This article may not be available for free access or may not exist.">>)>>))

NoSuchBucketText ==
    PyStr(S(<<"PMC Open Access bucket not accessible. Please check AWS configuration.">>))

InvalidPmcidFormat(id) ==
    Error("ValueError",
          Concat(<<S(<<"Invalid PMCID format: ">>), Format(id),
                   S(<<". Expected format: PMC followed by digits (e.g., PMC6033041)">>)>>))

FailedToRead(id, e) ==
    Error("Exception", Concat(<<S(<<"Failed to read PMC article ">>), Format(id), S(<<": ">>), e>>))

(***************************************************************************)
(* The documents the store may hold for the simplified readers: an         *)
(* abstract, an introduction and a conclusion, each absent (-1) or of a    *)
(* given number of characters, a body of filler, and the words that end    *)
(* the sections, present or not.                                           *)
(***************************************************************************)
MaxThousands == 12   \* thousands of characters in the longest section of a document

SectionLengths == {0 - 1, 0, 1000, 1001, 1000 * MaxThousands}
BodyLengths == {0, 3000, 3001, 1000 * MaxThousands}

ReaderDocument(a, i, c, b, ended) ==
    Norm(S(<<"<article>">>)
         \o (IF a < 0 THEN <<>>
             ELSE S(<<"<abstract>">> \o <<"A", "b", "s", "t", "r", "a", "c", "t", ":", " ">>) \o <<Run("x", a)>> \o S(<<"</abstract>">>))
         \o (IF i < 0 THEN <<>>
             ELSE S(<<"<sec>">> \o <<"I", "N", "T", "R", "O", "D", "U", "C", "T", "I", "O", "N">> \o <<"\n">>) \o <<Run("y", i)>>)
         \o <<Run("w", b)>>
         \o (IF ended THEN S(<<" ", "M", "e", "t", "h", "o", "d", "s", " ", "a", "n", "d", " ", "r", "e", "s", "u", "l", "t", "s", " ">>) ELSE <<>>)
         \o (IF c < 0 THEN <<>>
             ELSE S(<<"C", "o", "n", "c", "l", "u", "s", "i", "o", "n", "s">> \o <<"\t">>) \o <<Run("z", c)>>)
         \o (IF ended THEN S(<<"\n">> \o <<"R", "e", "f", "e", "r", "e", "n", "c", "e", "s">>) ELSE <<>>)
         \o S(<<"</article>">>))

ReaderDocuments ==
    {ReaderDocument(a, i, c, 0, ended) :
        a \in SectionLengths, i \in SectionLengths, c \in SectionLengths,
        ended \in BOOLEAN}
    \cup {ReaderDocument(0 - 1, 0 - 1, 0 - 1, b, ended) :
              b \in BodyLengths, ended \in BOOLEAN}

(***************************************************************************)
(* read_pubmed of read_pubmed_simple.py, and lambda_handler and            *)
(* read_pmc_article of read_pubmed_bedrock.py, step by step.               *)
(***************************************************************************)
\* read_pubmed(pmcid, source)
ReadArgs(id, src) == [pmcid |-> id, source |-> src]

PMC1 == PyStr(S(<<"P", "M", "C", "1">>))
DefaultReadArgs == ReadArgs(PMC1, PyNone)

ReadPubmedArgs ==
    {ReadArgs(id, PyNone) : id \in PmcidInputs \cup {PyStr(S(<<"P", "M", "C">>))}}
    \cup {ReadArgs(PMC1, src) : src \in SourceInputs}

DefaultReadEvent == Event(TRUE, <<Param("pmcid", PMC1)>>)

ReadEvents ==
    {Event(FALSE, <<Param("pmcid", PMC1)>>), Event(TRUE, <<>>),
     Event(TRUE, <<Param("source", PMC1)>>),
     Event(TRUE, <<Param("pmcid", PMC1), Param("format", PMC1), Param("pmcid", EmptyStr)>>)}
    \cup {Event(TRUE, <<Param("pmcid", id)>>) :
              id \in PmcidInputs \cup {PyStr(S(<<"P", "M", "C">>))}}
    \cup {Event(TRUE, <<Param("source", src), Param("pmcid", PMC1)>>) : src \in SourceInputs}

\* The documents explored: every document for the default arguments of
\* read_pubmed, three documents otherwise.
ReaderDocumentsFor(in) ==
    IF in = DefaultReadArgs THEN ReaderDocuments
    ELSE {ReaderDocument(1001, 0 - 1, 1000, 0, TRUE),
          ReaderDocument(1000 * MaxThousands, 1000 * MaxThousands, 1000 * MaxThousands, 0, TRUE),
          ReaderDocument(0 - 1, 0 - 1, 0 - 1, 1000 * MaxThousands, FALSE)}

InitReader ==
    /\ fn = "read"
    /\ arg = PyNone
    /\ ret = "pending"
    /\ \/ entry = "read_pubmed" /\ inputs \in ReadPubmedArgs
       \/ entry = "lambda_handler" /\ inputs \in ReadEvents
    /\ pc = "start"
    /\ pmcid = PyNone
    /\ source = PyNone
    /\ calls = <<>>
    /\ raw = <<>>
    /\ text = <<>>
    /\ sumResult = "none"
    /\ response = NoResponse
    /\ raised = "none"
    /\ idlist = <<>>
    /\ payload = Payload(TRUE, <<>>)
    /\ spc = "idle"
    /\ query = PyNone
    /\ max_results = PyNone
    /\ max_records = PyNone
    /\ rerank = PyNone
    /\ requests = <<>>
    /\ pmids = <<>>
    /\ articles = <<>>
    /\ ranking = "not_run"
    /\ result = PyNone
    /\ failure = NoFailure
    /\ api_response = NoApiResponse
    /\ SupIdle

\* What the readers leave alone.
ReaderUnchanged ==
    UNCHANGED <<fn, arg, ret, entry, inputs, response, raised, idlist, payload, spc, query,
                max_results, max_records, rerank, requests, pmids, articles, ranking,
                supVars>>

\* The last value given under name in the parameters, None if there is none.
RECURSIVE LastValue(_, _, _)
LastValue(parameters, name, value) ==
    IF parameters = <<>> THEN value
    ELSE LastValue(Tail(parameters), name,
                   IF Head(parameters).name = name THEN Head(parameters).value ELSE value)

\* read_pubmed is called with its arguments; lambda_handler reads its event
\* up to the call of read_pmc_article.
ReadStart ==
    /\ fn = "read"
    /\ pc = "start"
    /\ IF entry = "read_pubmed"
       THEN /\ pmcid' = inputs.pmcid
            /\ source' = inputs.source
            /\ pc' = "read"
            /\ UNCHANGED api_response
       ELSE IF ~inputs.complete
       THEN /\ api_response' = ApiResponse(500, Lit("Unexpected error: 'actionGroup'"))
            /\ pc' = "done"
            /\ UNCHANGED <<pmcid, source>>
       ELSE /\ pmcid' = LastValue(inputs.parameters, "pmcid", PyNone)
            /\ source' = LastValue(inputs.parameters, "source", PyNone)
            /\ IF ~Truthy(pmcid')
               THEN /\ api_response' =
                         ApiResponse(400, Lit("Error: PMCID parameter is required"))
                    /\ pc' = "done"
               ELSE /\ pc' = "read"
                    /\ UNCHANGED api_response
    /\ UNCHANGED <<calls, raw, text, sumResult, result, failure>>
    /\ ReaderUnchanged

\* How boto3.client, get_object and the decoding end.  "no_client":
\* boto3.client raises; "fetched": the object is read and decoded; the
\* error codes of a ClientError; NoCredentialsError; the decoding raises;
\* any other exception.
ReaderOutcomes ==
    {"no_client", "fetched", "NoSuchKey", "NoSuchBucket", "AccessDenied", "no_credentials",
     "decode_error", "other"}

\* How invoke_model ends when summarize_article is called.
SummaryOutcomes == {"summary", "failed"}
SummaryText == S(<<"s", "u", "m">>)

ReadReturns(value) ==
    /\ result' = value
    /\ failure' = failure
    /\ pc' = IF entry = "lambda_handler" THEN "respond" ELSE "done"

ReadRaises(e) ==
    /\ failure' = e
    /\ result' = result
    /\ pc' = IF entry = "lambda_handler" THEN "respond" ELSE "done"

\* read_pubmed and read_pmc_article: the format check, the download, the
\* extraction, the summarization of a text of more than 10,000 characters,
\* and the handlers of the exceptions.
ReadArticle ==
    /\ fn = "read"
    /\ pc = "read"
    /\ IF ~IsStr(pmcid)
       THEN /\ ReadRaises(Error("AttributeError", S(<<"<AttributeError>">>)))
            /\ UNCHANGED <<calls, raw, text, sumResult>>
       ELSE IF ~HasPmcFormat(pmcid)
       THEN /\ ReadRaises(InvalidPmcidFormat(pmcid))
            /\ UNCHANGED <<calls, raw, text, sumResult>>
       ELSE \E outcome \in ReaderOutcomes :
              LET get_object == Call("get_object", S3Path(pmcid), outcome)
              IN  CASE outcome = "fetched" ->
                         \E xml_content \in ReaderDocumentsFor(inputs) :
                           LET extracted == extract_article_text(xml_content)
                               long == StrLen(extracted) > 10000
                           IN  \E summarized \in IF long THEN SummaryOutcomes ELSE {"none"} :
                                 LET article_text ==
                                       IF long
                                       THEN summarize_article(extracted, summarized, SummaryText)
                                       ELSE extracted
                                 IN  /\ raw' = xml_content
                                     /\ text' = article_text
                                     /\ sumResult' = summarized
                                     /\ calls' =
                                          IF long
                                          THEN <<get_object,
                                                 Call("invoke_model", PyNone, summarized)>>
                                          ELSE <<get_object>>
                                     /\ ReadReturns(ArticleResult(pmcid, source, article_text))
                    [] outcome = "no_client" ->
                         /\ ReadRaises(FailedToRead(pmcid, S(<<"<no_client>">>)))
                         /\ UNCHANGED <<calls, raw, text, sumResult>>
                    [] outcome = "NoSuchKey" ->
                         /\ calls' = <<get_object>>
                         /\ ReadReturns(NoSuchKeyText(pmcid))
                         /\ UNCHANGED <<raw, text, sumResult>>
                    [] outcome = "NoSuchBucket" ->
                         /\ calls' = <<get_object>>
                         /\ ReadReturns(NoSuchBucketText)
                         /\ UNCHANGED <<raw, text, sumResult>>
                    [] outcome = "AccessDenied" ->
                         /\ calls' = <<get_object>>
                         /\ ReadRaises(Error("Exception",
                                             S(<<"Error accessing PMC article: ", outcome>>)))
                         /\ UNCHANGED <<raw, text, sumResult>>
                    [] outcome = "no_credentials" ->
                         /\ calls' = <<get_object>>
                         /\ ReadRaises(Error("Exception",
                                             S(<<"AWS credentials not configured for S3 access">>)))
                         /\ UNCHANGED <<raw, text, sumResult>>
                    [] OTHER ->
                         /\ calls' = <<get_object>>
                         /\ ReadRaises(FailedToRead(pmcid, S(<<"<", outcome, ">">>)))
                         /\ UNCHANGED <<raw, text, sumResult>>
    /\ UNCHANGED <<pmcid, source, api_response>>
    /\ ReaderUnchanged

\* Mutant of ReadRespond: the handler answers 200 whatever the read did.
ReadRespondAlwaysOk ==
    /\ fn = "read"
    /\ pc = "respond"
    /\ api_response' =
         ApiResponse(200, IF failure = NoFailure THEN result ELSE PyStr(failure.msg))
    /\ pc' = "done"
    /\ UNCHANGED <<pmcid, source, calls, raw, text, sumResult, result, failure>>
    /\ ReaderUnchanged

\* lambda_handler after read_pmc_article: 200 with the content, or the
\* handler "except Exception as read_error".
ReadRespond ==
    /\ fn = "read"
    /\ pc = "respond"
    /\ api_response' =
         IF failure = NoFailure THEN ApiResponse(200, result)
         ELSE ApiResponse(500, PyStr(Cat(S(<<"Error reading PMC article: ">>), failure.msg)))
    /\ pc' = "done"
    /\ UNCHANGED <<pmcid, source, calls, raw, text, sumResult, result, failure>>
    /\ ReaderUnchanged

NextReader == ReadStart \/ ReadArticle \/ ReadRespond

SpecReader == InitReader /\ [][NextReader]_vars

\* The reader returned the content of a fetched document.
ContentReturned == fn = "read" /\ pc \in {"respond", "done"} /\ raw # <<>>

\* C30: in the simplified readers, for every fetched document,
\* summarize_article is not invoked: the extracted text is shorter than
\* 10,000 characters and the content returned is the extracted text itself.
C30_SummarizeNeverInvoked ==
    ContentReturned =>
        /\ \A k \in DOMAIN calls : calls[k].op # "invoke_model"
        /\ sumResult = "none"
        /\ StrLen(text) < 10000
        /\ text = extract_article_text(raw)
        /\ result = ArticleResult(pmcid, source, extract_article_text(raw))

\* A document of more than 10,000 characters was fetched and its content
\* returned unsummarized.
C30_Witness ==
    /\ ContentReturned
    /\ StrLen(raw) > 10000
    /\ sumResult = "none"
    /\ StrLen(text) > 3000

(***************************************************************************)
(* The two Bedrock action-group handlers together: lambda_handler of       *)
(* search_pubmed_bedrock.py and lambda_handler of read_pubmed_bedrock.py.  *)
(***************************************************************************)
InitHandlers ==
    /\ entry = "lambda_handler"
    /\ InitSearch \/ InitReader

NextHandlers ==
    LambdaHandlerStart \/ ESearch \/ EFetch \/ Rerank \/ FormatResults \/ Respond
    \/ ReadStart \/ ReadArticle \/ ReadRespond

SpecHandlers == InitHandlers /\ [][NextHandlers]_vars

\* A handler has returned for an event that carries actionGroup, apiPath
\* and httpMethod.
HandlerReturned ==
    /\ entry = "lambda_handler"
    /\ inputs.complete
    /\ IF fn = "search" THEN spc = "done" ELSE pc = "done"

\* The required parameter of the event is missing or empty.
RequiredMissing ==
    ~Truthy(LastValue(inputs.parameters, IF fn = "search" THEN "query" ELSE "pmcid", PyNone))

\* A numeric parameter of the event could not be converted.
ConversionFailed ==
    /\ fn = "search"
    /\ ParseParameters(inputs.parameters,
                       Locals(PyNone, PyNum(100), PyNone, Lit("referenced_by"), FALSE)).raises

\* The search or read operation was invoked; it returned a value; it raised.
OperationInvoked == result # PyNone \/ failure # NoFailure
OperationReturned == result # PyNone /\ failure = NoFailure
OperationRaised == failure # NoFailure

\* Every handler that was started returns a response: none of its paths
\* leaves it by an exception.
HandlerNeverRaises ==
    /\ entry = "lambda_handler" /\ (IF fn = "search" THEN spc = "done" ELSE pc = "done")
         => api_response.httpStatusCode \in {200, 400, 500}
    /\ api_response # NoApiResponse
         => IF fn = "search" THEN spc = "done" ELSE pc = "done"

Step(step, argument, outcome) == [step |-> step, argument |-> argument, outcome |-> outcome]

\* A dictionary that expand_scientific_query returns: the values under
\* expanded_terms and temporal_filter, Absent for a missing key.  The model
\* may also answer with JSON that is no object: a list.
Dict(terms, filter) ==
    [t |-> "dict", s |-> <<>>, expanded_terms |-> terms, temporal_filter |-> filter]
JsonArray == [t |-> "list", s |-> <<>>]
NotJson == [t |-> "not_json", s |-> <<>>]
IsDict(v) == v.t = "dict"

Terms == PyStr(S(<<"a", " ", "O", "R", " ", "b">>))
LastFiveYears == PyStr(S(<<"l", "a", "s", "t", " ", "5", " ", "Y", "e", "a", "r", "s">>))

\* event.get("prompt", "")
Prompts == {Absent, EmptyStr, PyNone, Q, Spaces, PyInt("123")}

\* What json.loads makes of the answer of the model to the expansion
\* prompt; NotJson: it raises JSONDecodeError.
ExpansionAnswers ==
    {Dict(Terms, filter) :
        filter \in {LastFiveYears, PyStr(S(<<"r", "e", "c", "e", "n", "t">>)), EmptyStr, PyNone, Absent, PyInt("5")}}
    \cup {Dict(Absent, Absent), Dict(PyInt("5"), PyNone), JsonArray}

\* call_bedrock_model: the first model answers, or it fails and the Haiku
\* model answers, or both fail and the call raises.
ModelOutcomes == {"answered", "fallback_answered", "failed"}

\* expand_scientific_query(user_query): the answer parsed, or one of its two
\* fallbacks.
expand_scientific_query(user_query, outcome, answer) ==
    IF outcome = "failed" THEN Dict(user_query, PyNone)
    ELSE IF answer = NotJson
    THEN Dict(PyStr(Cat(Format(user_query), S(<<" ", "O", "R", " ", "r", "e", "l", "a", "t", "e", "d", " ", "t", "e", "r", "m", "s", " ", "O", "R", " ", "r", "e", "c", "e", "n", "t", " ", "a", "d", "v", "a", "n", "c", "e", "s">>))),
              PyStr(S(<<"l", "a", "s", "t", " ", "5", " ", "y", "e", "a", "r", "s">>)))
    ELSE answer

\* conduct_pubmed_research before its try: .get and .lower raise
\* AttributeError on what has no such attribute.
GetOr(value, default) == IF value = Absent THEN default ELSE value

ResearchRaises(data) ==
    \/ ~IsDict(data)
    \/ LET temporal_filter == GetOr(data.temporal_filter, PyNone)
       IN  Truthy(temporal_filter) /\ ~IsStr(temporal_filter)

SearchQuery(data) ==
    LET expanded_query == GetOr(data.expanded_terms, EmptyStr)
        temporal_filter == GetOr(data.temporal_filter, PyNone)
    IN  IF Truthy(temporal_filter) /\ Contains(Lower(temporal_filter.s), <<"y", "e", "a", "r">>)
        THEN PyStr(Concat(<<Format(expanded_query), S(<<" ", "A", "N", "D", " ">>), Format(temporal_filter),
                            S(<<"[", "d", "p", "]">>)>>))
        ELSE expanded_query

\* line.split()
RECURSIVE SplitWords(_, _)
SplitWords(chars, word) ==
    IF chars = <<>> THEN (IF word = <<>> THEN <<>> ELSE <<word>>)
    ELSE IF Head(chars) \in Whitespace
    THEN (IF word = <<>> THEN <<>> ELSE <<word>>) \o SplitWords(Tail(chars), <<>>)
    ELSE SplitWords(Tail(chars), Append(word, Head(chars)))

\* The first word of the line that is PMC followed by digits, if any.
FirstPmcId(line) ==
    LET words == SplitWords(Expand(line), <<>>)
        ids == SelectSeq(words, LAMBDA word : HasPmcFormat(PyStr(S(word))))
    IN  IF ids = <<>> THEN <<>> ELSE <<PyStr(S(Head(ids)))>>

RECURSIVE PmcIdsOf(_)
PmcIdsOf(lines) ==
    IF lines = <<>> THEN <<>> ELSE FirstPmcId(Head(lines)) \o PmcIdsOf(Tail(lines))

\* extract_pmc_ids_from_search(search_results)
extract_pmc_ids_from_search(results) ==
    LET ids == PmcIdsOf(SplitLines(results.s))
    IN  SubSeq(ids, 1, IF Len(ids) > 5 THEN 5 ELSE Len(ids))

\* pmc_ids[:3]
TopThree(ids) == SubSeq(ids, 1, IF Len(ids) > 3 THEN 3 ELSE Len(ids))

\* What search_pubmed may return.
MaxLines == 7   \* lines of a search result that name an article, at most

SearchLine(k) ==
    CASE k = 1 -> S(<<"1", ".", " ", "T", "i", "t", "l", "e", " ", "P", "M", "C", "1", " ", "a", "n", "d", " ", "P", "M", "C", "2">>)
      [] k = 2 -> S(<<" ", " ", " ", "s", "e", "e", " ", "P", "M", "C", "3", ",", " ", "o", "r", " ", "P", "M", "C", "x", " ", "P", "M", "C", "4">>)
      [] k = 3 -> S(<<" ", " ", " ", "P", "M", "C", " ", "P", "M", "C", "I", "D", " ", "p", "m", "c", "5", " ", "x", "P", "M", "C", "6">>)
      [] OTHER -> Cat(S(<<" ", " ", " ", "P", "M", "I", "D", ":", " ", "1", " ", "P", "M", "C">>), <<Run("7", k - 3)>>)

SearchTexts ==
    {PyStr(S(<<"N", "o", " ", "a", "r", "t", "i", "c", "l", "e", "s", " ", "f", "o", "u", "n", "d", " ", "f", "o", "r", " ", "q", "u", "e", "r", "y", ":", " ", "q">>))}
    \cup {PyStr(JoinWith(S(<<"\n">>), [k \in 1..n |-> SearchLine(k)])) : n \in 1..MaxLines}

InitSupervisor ==
    /\ fn = "handler"
    /\ arg = PyNone
    /\ ret = "pending"
    /\ ReadIdle
    /\ SearchIdle
    /\ sup_pc = "start"
    /\ user_prompt \in Prompts
    /\ expansion_data = PyNone
    /\ search_query = PyNone
    /\ search_results = PyNone
    /\ pmc_ids = <<>>
    /\ full_text_analyses = <<>>
    /\ trace = <<>>
    /\ final_response = PyNone

SupervisorUnchanged == UNCHANGED <<pureVars, readVars, searchVars>>

\* handler: the prompt is read from the event and tested.
HandlerStart ==
    /\ sup_pc = "start"
    /\ user_prompt' = IF user_prompt = Absent THEN EmptyStr ELSE user_prompt
    /\ IF ~Truthy(user_prompt')
       THEN /\ final_response' = Lit("Error: No prompt provided")
            /\ sup_pc' = "done"
       ELSE /\ sup_pc' = "expand"
            /\ UNCHANGED final_response
    /\ UNCHANGED <<expansion_data, search_query, search_results, pmc_ids, full_text_analyses,
                   trace>>
    /\ SupervisorUnchanged

\* expand_scientific_query(user_prompt)
ExpandQuery ==
    /\ sup_pc = "expand"
    /\ \E outcome \in ModelOutcomes :
         \E answer \in IF outcome = "failed" THEN {PyNone}
                       ELSE ExpansionAnswers \cup {NotJson} :
           /\ expansion_data' = expand_scientific_query(user_prompt, outcome, answer)
           /\ trace' = Append(trace, Step("expand_scientific_query", user_prompt, outcome))
    /\ sup_pc' = "research"
    /\ UNCHANGED <<user_prompt, search_query, search_results, pmc_ids, full_text_analyses,
                   final_response>>
    /\ SupervisorUnchanged

\* f"Error processing request: {str(e)}"
ErrorProcessingRequest(e) == PyStr(Cat(S(<<"E", "r", "r", "o", "r", " ", "p", "r", "o", "c", "e", "s", "s", "i", "n", "g", " ", "r", "e", "q", "u", "e", "s", "t", ":", " ">>), e))

\* conduct_pubmed_research up to the reads: the search query is built and
\* search_pubmed is called; it returns a text or raises.
Research ==
    /\ sup_pc = "research"
    /\ IF ResearchRaises(expansion_data)
       THEN /\ final_response' = ErrorProcessingRequest(S(<<"<AttributeError>">>))
            /\ sup_pc' = "done"
            /\ UNCHANGED <<search_query, search_results, pmc_ids, trace>>
       ELSE /\ search_query' = SearchQuery(expansion_data)
            /\ \E outcome \in {"returned", "raised"} :
                 /\ trace' = Append(trace, Step("search_pubmed", search_query', outcome))
                 /\ IF outcome = "raised"
                    THEN /\ search_results' = PyStr(S(<<"Search failed: ", "<Exception>">>))
                         /\ pmc_ids' = <<>>
                         /\ sup_pc' = "synthesize"
                    ELSE \E results \in SearchTexts :
                           /\ search_results' = results
                           /\ pmc_ids' = extract_pmc_ids_from_search(results)
                           /\ sup_pc' = IF pmc_ids' = <<>> THEN "synthesize" ELSE "read"
            /\ UNCHANGED final_response
    /\ UNCHANGED <<user_prompt, expansion_data, full_text_analyses>>
    /\ SupervisorUnchanged

\* The read_pubmed steps taken so far.
Reads(steps) == SelectSeq(steps, LAMBDA s : s.step = "read_pubmed")

\* One turn of the loop over pmc_ids[:3]: read_pubmed returns the content,
\* which is kept, or raises, and the loop goes on.
ReadNext ==
    /\ sup_pc = "read"
    /\ LET pmc_id == TopThree(pmc_ids)[Len(Reads(trace)) + 1]
       IN  \E outcome \in {"returned", "raised"} :
             /\ trace' = Append(trace, Step("read_pubmed", pmc_id, outcome))
             /\ IF outcome = "returned"
                THEN \E article_content \in
                         {ArticleResult(pmc_id, PyNone, S(<<"t", "e", "x", "t">>)),
                          NoSuchKeyText(pmc_id)} :
                       full_text_analyses' =
                         Append(full_text_analyses,
                                [pmcid |-> pmc_id, content |-> article_content])
                ELSE UNCHANGED full_text_analyses
             /\ sup_pc' = IF Len(Reads(trace')) = Len(TopThree(pmc_ids)) THEN "synthesize"
                          ELSE "read"
    /\ UNCHANGED <<user_prompt, expansion_data, search_query, search_results, pmc_ids,
                   final_response>>
    /\ SupervisorUnchanged

\* synthesize_research_response: the answer of the model, or the fallback
\* text.
FallbackResponse(original_query, results, q) ==
    PyStr(Concat(<<S(<<"\n", "Based on the literature search for \"">>),
                   Format(original_query),
                   S(<<"\":", "\n", "\n", "Search Results Summary:", "\n">>),
                   Format(results),
                   S(<<"\n", "\n", "This represents a multi-agent approach where:", "\n",
                       "1. Supervisor Agent expanded your query: \"">>),
                   Format(q),
                   S(<<"\"", "\n",
                       "2. PubMed Researcher Agent conducted comprehensive literature search",
                       "\n",
                       "3. Supervisor Agent synthesized findings (synthesis temporarily unavailable due to technical issue)",
                       "\n", "\n",
                       "The search identified relevant literature that can provide insights into your question about ">>),
                   Format(original_query), S(<<".", "\n">>)>>))

Synthesize ==
    /\ sup_pc = "synthesize"
    /\ \E outcome \in ModelOutcomes :
         /\ trace' = Append(trace, Step("synthesize_research_response", user_prompt, outcome))
         /\ final_response' = IF outcome = "failed"
                              THEN FallbackResponse(user_prompt, search_results, search_query)
                              ELSE Lit("<synthesis>")
    /\ sup_pc' = "done"
    /\ UNCHANGED <<user_prompt, expansion_data, search_query, search_results, pmc_ids,
                   full_text_analyses>>
    /\ SupervisorUnchanged

NextSupervisor == HandlerStart \/ ExpandQuery \/ Research \/ ReadNext \/ Synthesize

SpecSupervisor == InitSupervisor /\ [][NextSupervisor]_vars

\* The handler has returned.
SupervisorReturned == sup_pc = "done"

\* The steps of the trace, by name.
StepNames == [k \in DOMAIN trace |-> trace[k].step]

\* expansion, one search, the reads of the first three identifiers found,
\* synthesis, in this order.
FullRun(reads) ==
    <<"expand_scientific_query", "search_pubmed">>
    \o [k \in 1..reads |-> "read_pubmed"]
    \o <<"synthesize_research_response">>

\* C27: the simple supervisor handler never raises and returns a string;
\* with an empty or missing prompt it returns 'Error: No prompt provided'
\* without any model, search or store call; otherwise its steps run in the
\* order query expansion, one search, at most three article reads,
\* synthesis; a failed read is skipped and the remaining reads are made,
\* and a failed search yields no reads.
C27_SupervisorSteps ==
    SupervisorReturned =>
        /\ IsStr(final_response)
        /\ IF ~Truthy(user_prompt)
           THEN final_response = Lit("Error: No prompt provided") /\ trace = <<>>
           ELSE /\ \E reads \in 0..3 : StepNames = FullRun(reads)
                /\ trace[2].outcome = "raised" => Reads(trace) = <<>>
                /\ trace[2].outcome = "returned" =>
                     /\ Len(Reads(trace)) = Len(TopThree(pmc_ids))
                     /\ \A k \in DOMAIN Reads(trace) : Reads(trace)[k].argument = pmc_ids[k]
                     /\ Len(full_text_analyses) =
                          Cardinality({k \in DOMAIN trace :
                                          /\ trace[k].step = "read_pubmed"
                                          /\ trace[k].outcome = "returned"})

====
